---- MODULE Spec2Model ----
(***************************************************************************)
(* Verification model of the drone delivery system (EntregaDrones).        *)
(*                                                                         *)
(* The module holds several state machines over one set of variables:      *)
(*   SpecCarry  - Drone.canCarryOrder applied to drawn drone/order pairs   *)
(*   SpecTwoOpt - OptimizationAlgorithm.optimizeRouteWith2Opt, pass by pass*)
(*   Spec       - the browser store: OrderController, DroneController,     *)
(*                DeliveryController and the timers of the drones          *)
(*   SpecEngine - the assignment passes (OptimizationAlgorithm and the     *)
(*                controllers) on the orders and drones of the store       *)
(*   SpecTrips  - one drone flying several trips, one after another        *)
(*   SpecApi    - the REST store: pedidos, drones and entregas routes      *)
(*   SpecCluster- clusterOrdersByDistance (k-means) on drawn orders        *)
(*   SpecRoute  - the route builders of the drone and of the REST API      *)
(*   SpecServer - requests to server.js and to the rateLimiter middleware  *)
(*                                                                         *)
(* Numbers: coordinates, weights and distances are integers.  Every point  *)
(* set used is chosen so that all distances the code computes between its  *)
(* points are whole numbers (Sqrt is exact and undefined otherwise), so    *)
(* sums and comparisons of distances are those of the JavaScript doubles.  *)
(* Ratios (scores) are compared by cross multiplication.                   *)
(***************************************************************************)
EXTENDS Integers, Sequences, FiniteSets, TLC

VARIABLES
    \* ---- SpecCarry
    ccDrone,      \* the drone handed to canCarryOrder
    ccOrder,      \* the order handed to canCarryOrder
    ccBefore,     \* [drone, order] as they were before the call
    ccResult,     \* the boolean returned
    ccPc,         \* "call" before the call, "done" after it
    \* ---- SpecTwoOpt
    toInput,      \* the path handed to optimizeRouteWith2Opt
    toRoute,      \* local variable route
    toBestRoute,  \* local variable bestRoute
    toBestDistance, \* local variable bestDistance
    toImproved,   \* local variable improved
    toResult,     \* the path returned
    toFirst,      \* the path the first call returned, once it is handed in again
    toCall,       \* 1 in the first call, 2 in the call on its result
    toPc,         \* "call", "loop", "done"
    \* ---- Spec (browser store)
    clock,        \* minutes since the page loaded (new Date())
    orderObj,     \* every Order object created, by object index
    orders,       \* orderController.orders: object indices
    deliveredOrders, \* orderController.deliveredOrders: object indices
    orderIdCounter,  \* orderController.orderIdCounter
    drones,       \* droneController.drones: Drone objects
    timers,       \* pending setTimeout/setInterval callbacks, oldest first
    isSimulationRunning, \* deliverySystem.isSimulationRunning
    simulationInterval,  \* deliverySystem.simulationInterval is set
    lastCall,     \* the last operation called and what it returned
    \* ---- SpecCluster
    clOrders,     \* the orders handed to clusterOrdersByDistance
    clK,          \* the number of clusters asked for
    clCentroids,  \* local variable centroids when the last call returned
    clResult,     \* the clusters the last call returned: arrays of order indices
    clFirst,      \* the clusters the first of two calls returned
    clCall,       \* the number of calls made on the input
    \* ---- SpecRoute
    rtOrders,     \* the orders a route is built for
    rtRoute,      \* Drone.currentRoute after optimizeRoute()
    rtDistance,   \* what Drone.calculateRouteDistance() returned
    rtApi,        \* what calculateOptimizedRoute(drone, orders) returned
    rtDone,       \* the route builders that have run
    \* ---- SpecServer
    rlNow,        \* Date.now(), in ms
    rlRequests,   \* the Map requests of one rateLimiter: client -> times
    rlPassed,     \* the times at which the limiter called next(), by client
    rlServed,     \* the times at which server.js reached a route, by client
    rlStatus,     \* the status of the last response
    \* ---- SpecApi, SpecStore
    droneIdCounter, \* droneIdCounter of the drones routes
    \* ---- SpecSim
    simStart      \* the run that is left to its timers: the orders that were
                  \* assigned when startSimulation returned true

ccVars == <<ccDrone, ccOrder, ccBefore, ccResult, ccPc>>
toVars == <<toInput, toRoute, toBestRoute, toBestDistance, toImproved, toResult,
           toFirst, toCall, toPc>>
webVars == <<clock, orderObj, orders, deliveredOrders, orderIdCounter, drones,
             timers, isSimulationRunning, simulationInterval, lastCall>>
clVars == <<clOrders, clK, clCentroids, clResult, clFirst, clCall>>
rtVars == <<rtOrders, rtRoute, rtDistance, rtApi, rtDone>>
rlVars == <<rlNow, rlRequests, rlPassed, rlServed, rlStatus>>
apiVars == <<droneIdCounter>>
simVars == <<simStart>>
vars == <<ccVars, toVars, webVars, clVars, rtVars, rlVars, apiVars, simVars>>

(***************************************************************************)
(* Geometry                                                                *)
(***************************************************************************)
Pt(px, py) == [x |-> px, y |-> py]

\* The base of every drone, { x: 10, y: 10 }.
BaseX == 10
BaseY == 10
basePosition == Pt(BaseX, BaseY)

Abs(n) == IF n < 0 THEN -n ELSE n

Min(a, b) == IF a < b THEN a ELSE b

Max(a, b) == IF a > b THEN a ELSE b

\* Math.sqrt on a perfect square (exact in doubles); no value otherwise.
Sqrt(n) == CHOOSE r \in 0..n : r * r = n

\* calculateDistance(point1, point2): Euclidean distance.
calculateDistance(point1, point2) ==
    LET dx == point2.x - point1.x
        dy == point2.y - point1.y
    IN  Sqrt(dx * dx + dy * dy)

\* A rhombus around the base with diagonals 6 and 8: all pairwise distances
\* are 3, 4, 5, 6 or 8.
RhombusPoints == {Pt(10, 10), Pt(13, 10), Pt(7, 10), Pt(10, 14), Pt(10, 6)}

\* Points of the row y = 10 of the 21 x 21 city grid.
RowPoints == {Pt(0, 10), Pt(7, 10), Pt(10, 10), Pt(13, 10), Pt(20, 10)}

(***************************************************************************)
(* Drone: feasibility                                                      *)
(***************************************************************************)
BatteryRate == 5
BatteryFull == 100

\* Drone.calculateBatteryNeeded(distance) = Math.min(100, distance * 5)
calculateBatteryNeeded(distance) == Min(BatteryFull, distance * BatteryRate)

\* Mutant: the load must stay below the capacity.
canCarryOrder_Strict(drone, order) ==
    LET newLoad == drone.currentLoad + order.weight
        distanceToOrder == calculateDistance(drone.position, order.location)
        distanceToBase == calculateDistance(order.location, basePosition)
        totalDistance == distanceToOrder + distanceToBase
    IN  [ret |-> /\ newLoad < drone.capacity
                 /\ totalDistance <= drone.range
                 /\ drone.battery >= calculateBatteryNeeded(totalDistance),
         drone |-> drone,
         order |-> order]

\* Drone.canCarryOrder(order), as a call: the value returned and the drone
\* and order objects as the call leaves them (the body assigns nothing).
canCarryOrderCall(drone, order) ==
    LET newLoad == drone.currentLoad + order.weight
        distanceToOrder == calculateDistance(drone.position, order.location)
        distanceToBase == calculateDistance(order.location, basePosition)
        totalDistance == distanceToOrder + distanceToBase
    IN  [ret |-> /\ newLoad <= drone.capacity
                 /\ totalDistance <= drone.range
                 /\ drone.battery >= calculateBatteryNeeded(totalDistance),
         drone |-> drone,
         order |-> order]

\* Mutant: the distance of the trip is not looked at.
canCarryOrder_AnyDistance(drone, order) ==
    drone.currentLoad + order.weight <= drone.capacity

\* The value drone.canCarryOrder(order) returns.
canCarryOrder(drone, order) == canCarryOrderCall(drone, order).ret

(***************************************************************************)
(* SpecCarry: canCarryOrder on drawn inputs                                *)
(***************************************************************************)
CarryCapacities == {5}
CarryLoads == {0, 2, 3}
CarryRanges == {10, 30}
CarryBatteries == {40, 99, 100}
CarryWeights == {2, 3}

CarryDrones ==
    [capacity : CarryCapacities, range : CarryRanges, currentLoad : CarryLoads,
     battery : CarryBatteries, position : RowPoints]

CarryOrders == [weight : CarryWeights, location : RowPoints]

CarryInit ==
    /\ ccDrone \in CarryDrones
    /\ ccOrder \in CarryOrders
    /\ ccBefore = [drone |-> ccDrone, order |-> ccOrder]
    /\ ccResult = FALSE
    /\ ccPc = "call"

\* One evaluation of drone.canCarryOrder(order).
EvalCanCarry ==
    /\ ccPc = "call"
    /\ ccPc' = "done"
    /\ LET call == canCarryOrderCall(ccDrone, ccOrder)
       IN  /\ ccResult' = call.ret
           /\ ccDrone' = call.drone
           /\ ccOrder' = call.order
    /\ UNCHANGED <<ccBefore, toVars, webVars, clVars, rtVars, rlVars, apiVars, simVars>>

CarryOff ==
    /\ ccDrone = 0
    /\ ccOrder = 0
    /\ ccBefore = 0
    /\ ccResult = FALSE
    /\ ccPc = "off"

(***************************************************************************)
(* Route distance and 2-opt (OptimizationAlgorithm)                        *)
(***************************************************************************)
RECURSIVE SumLegs(_, _)
SumLegs(route, i) ==
    IF i >= Len(route) THEN 0
    ELSE calculateDistance(route[i], route[i + 1]) + SumLegs(route, i + 1)

\* calculateRouteDistance(route): the sum of the consecutive legs.
calculateRouteDistance(route) ==
    IF Len(route) < 2 THEN 0 ELSE SumLegs(route, 1)

\* reverseRouteSegment(route, start, end) with the 0-based indices of the
\* code: the elements start..end in reverse order, the others in place.
reverseRouteSegment(route, start, end) ==
    [k \in 1..Len(route) |->
        IF start + 1 <= k /\ k <= end + 1 THEN route[start + end + 2 - k]
        ELSE route[k]]

\* Mutant: a candidate is kept when it is longer than the best so far.
TwoOptAccepts_Longer(newDistance, bestDistance) == newDistance > bestDistance

\* Mutant: a candidate of the same length is kept as well.
TwoOptAccepts_OrEqual(newDistance, bestDistance) == newDistance <= bestDistance

\* if (newDistance < bestDistance)
TwoOptAccepts(newDistance, bestDistance) == newDistance < bestDistance

\* Mutant: the pass forgets route = bestRoute and scans the same path again.
TwoOptNextRoute_Stale(route, bestRoute) == route

\* route = bestRoute; at the end of a pass of the while loop.
TwoOptNextRoute(route, bestRoute) == bestRoute

\* Mutant: the scan starts at index 0 and so reverses the first depot visit.
TwoOptFirstIndex_Zero(route) == 0

\* for (let i = 1; ...): the first index a reversal may start at.
TwoOptFirstIndex(route) == 1

\* The two for loops of one pass of the while loop, from the pair (i, j) on;
\* acc holds bestRoute, bestDistance and improved.  Every candidate is a
\* reversal of route, the path the pass started with.
RECURSIVE TwoOptScan(_, _, _, _)
TwoOptScan(route, i, j, acc) ==
    IF i >= Len(route) - 2 THEN acc
    ELSE IF j >= Len(route) - 1 THEN TwoOptScan(route, i + 1, i + 2, acc)
    ELSE LET newRoute == reverseRouteSegment(route, i, j)
             newDistance == calculateRouteDistance(newRoute)
         IN  TwoOptScan(route, i, j + 1,
                 IF TwoOptAccepts(newDistance, acc.bestDistance)
                 THEN [bestRoute |-> newRoute, bestDistance |-> newDistance,
                       improved |-> TRUE]
                 ELSE acc)

(***************************************************************************)
(* SpecTwoOpt: optimizeRouteWith2Opt, one action per pass of its loop      *)
(***************************************************************************)
MaxPathLen == 5

RECURSIVE PathsUpTo(_)
PathsUpTo(n) ==
    IF n = 0 THEN {<<>>}
    ELSE LET shorter == PathsUpTo(n - 1)
         IN  shorter \cup {Append(p, q) : p \in {s \in shorter : Len(s) = n - 1},
                                          q \in RhombusPoints}

TwoOptInit ==
    /\ toInput \in PathsUpTo(MaxPathLen)
    /\ toRoute = toInput
    /\ toBestRoute = <<>>
    /\ toBestDistance = 0
    /\ toImproved = FALSE
    /\ toResult = <<>>
    /\ toFirst = <<>>
    /\ toCall = 1
    /\ toPc = "call"

\* if (route.length < 4) return route;
TwoOptShort ==
    /\ toPc = "call"
    /\ Len(toRoute) < 4
    /\ toResult' = toRoute
    /\ toPc' = "done"
    /\ UNCHANGED <<toInput, toRoute, toBestRoute, toBestDistance, toImproved,
                   toFirst, toCall>>
    /\ UNCHANGED <<ccVars, webVars, clVars, rtVars, rlVars, apiVars, simVars>>

\* let bestRoute = [...route]; bestDistance = ...; improved = true;
TwoOptEnter ==
    /\ toPc = "call"
    /\ Len(toRoute) >= 4
    /\ toBestRoute' = toRoute
    /\ toBestDistance' = calculateRouteDistance(toRoute)
    /\ toImproved' = TRUE
    /\ toPc' = "loop"
    /\ UNCHANGED <<toInput, toRoute, toResult, toFirst, toCall>>
    /\ UNCHANGED <<ccVars, webVars, clVars, rtVars, rlVars, apiVars, simVars>>

\* One iteration of while (improved): the full scan, then route = bestRoute.
TwoOptPass ==
    /\ toPc = "loop"
    /\ toImproved
    /\ LET acc == TwoOptScan(toRoute, TwoOptFirstIndex(toRoute),
                      TwoOptFirstIndex(toRoute) + 1,
                      [bestRoute |-> toBestRoute, bestDistance |-> toBestDistance,
                       improved |-> FALSE])
       IN  /\ toBestRoute' = acc.bestRoute
           /\ toBestDistance' = acc.bestDistance
           /\ toImproved' = acc.improved
           /\ toRoute' = TwoOptNextRoute(toRoute, acc.bestRoute)
    /\ UNCHANGED <<toInput, toResult, toFirst, toCall, toPc>>
    /\ UNCHANGED <<ccVars, webVars, clVars, rtVars, rlVars, apiVars, simVars>>

\* return bestRoute;
TwoOptReturn ==
    /\ toPc = "loop"
    /\ ~toImproved
    /\ toResult' = toBestRoute
    /\ toPc' = "done"
    /\ UNCHANGED <<toInput, toRoute, toBestRoute, toBestDistance, toImproved,
                   toFirst, toCall>>
    /\ UNCHANGED <<ccVars, webVars, clVars, rtVars, rlVars, apiVars, simVars>>

\* optimizeRouteWith2Opt is called again, on the path it has returned.
TwoOptAgain ==
    /\ toPc = "done"
    /\ toCall = 1
    /\ toFirst' = toResult
    /\ toRoute' = toResult
    /\ toCall' = 2
    /\ toPc' = "call"
    /\ UNCHANGED <<toInput, toBestRoute, toBestDistance, toImproved, toResult>>
    /\ UNCHANGED <<ccVars, webVars, clVars, rtVars, rlVars, apiVars, simVars>>

TwoOptOff ==
    /\ toInput = <<>>
    /\ toRoute = <<>>
    /\ toBestRoute = <<>>
    /\ toBestDistance = 0
    /\ toImproved = FALSE
    /\ toResult = <<>>
    /\ toFirst = <<>>
    /\ toCall = 0
    /\ toPc = "off"

\* clusterOrdersByDistance is not called.
ClusterOff ==
    /\ clOrders = <<>>
    /\ clK = 0
    /\ clCentroids = <<>>
    /\ clResult = <<>>
    /\ clFirst = <<>>
    /\ clCall = -1

\* No route is being built.
RouteOff ==
    /\ rtOrders = <<>>
    /\ rtRoute = <<>>
    /\ rtDistance = 0
    /\ rtApi = [path |-> <<>>, distance |-> 0, estimatedTime |-> 0, visit |-> <<>>]
    /\ rtDone = {"drone", "api"}

\* The server is not listening.
ServerOff ==
    /\ rlNow = -1
    /\ rlRequests = <<>>
    /\ rlPassed = <<>>
    /\ rlServed = <<>>
    /\ rlStatus = 0

(***************************************************************************)
(* The browser store                                                       *)
(***************************************************************************)
RemoveAt(s, i) == SubSeq(s, 1, i - 1) \o SubSeq(s, i + 1, Len(s))

\* The array s with every element computed.
Array(s) == s \o <<>>

\* const x = ...; then(x): the value is computed once and named.
Let(x, then(_)) == then(x)

\* Array.prototype.sort with a comparator that is a strict weak order: Less(a,
\* b) is "compare(a, b) < 0".  The sort is stable.
StableSort(s, Less(_, _)) ==
    LET n == Len(s)
        rank(i) == Cardinality({j \in 1..n :
                       \/ Less(s[j], s[i])
                       \/ (~Less(s[i], s[j]) /\ j < i)})
    IN  Array([k \in 1..n |-> s[CHOOSE i \in 1..n : rank(i) = k - 1]])

\* array.filter(keep)
Filter(s, keep(_)) ==
    LET kept == {i \in 1..Len(s) : keep(s[i])}
        nth(k) == CHOOSE i \in kept : Cardinality({j \in kept : j < i}) = k - 1
    IN  Array([k \in 1..Cardinality(kept) |-> s[nth(k)]])

\* array.reduce((sum, e) => sum + f(e), 0)
SumOver(s, f(_)) ==
    LET acc[i \in 0..Len(s)] == IF i = 0 THEN 0 ELSE acc[i - 1] + f(s[i])
    IN  acc[Len(s)]

Range(s) == {s[i] : i \in 1..Len(s)}

\* a / b > c / d for positive b and d
RatGreater(a, b, c, d) == a * d > c * b

\* Math.round(a / b) for a >= 0, b > 0
RoundDiv(a, b) == (2 * a + b) \div (2 * b)

(* ---- Order ---- *)
Priorities == {"alta", "media", "baixa"}

\* { 'alta': 3, 'media': 2, 'baixa': 1 }
priorityScore(p) == CASE p = "alta" -> 3 [] p = "media" -> 2 [] OTHER -> 1

\* { 'alta': 100, 'media': 50, 'baixa': 10 }
priorityScore100(p) == CASE p = "alta" -> 100 [] p = "media" -> 50 [] OTHER -> 10

\* new Order(id, clientLocation, weight, priority); assignedDrone 0 is null.
NewOrder(id, location, weight, priority, now) ==
    [id |-> id, location |-> location, weight |-> weight, priority |-> priority,
     status |-> "pending", createdAt |-> now, assignedDrone |-> 0]

\* Order.getWaitingTime(): whole minutes since createdAt.
getWaitingTime(order, now) == now - order.createdAt

(* ---- Drone ---- *)
DroneCapacity == 5
DroneRange == 10

\* new Drone(id, capacity, range)
NewDrone(id, capacity, range) ==
    [id |-> id, capacity |-> capacity, range |-> range, currentLoad |-> 0,
     battery |-> BatteryFull, position |-> basePosition, status |-> "idle",
     assignedOrders |-> <<>>, currentRoute |-> <<>>, totalDistance |-> 0,
     deliveriesCount |-> 0, currentRouteIndex |-> 0]

\* Drone.assignOrder(order) on the objects w = [drones, obj]: the value
\* returned and the objects afterwards.
assignOrder(w, d, o) ==
    IF canCarryOrder(w.drones[d], w.obj[o])
    THEN [ok |-> TRUE,
          w |-> [drones |-> [w.drones EXCEPT
                               ![d].assignedOrders = Append(@, o),
                               ![d].currentLoad = @ + w.obj[o].weight],
                 obj |-> [w.obj EXCEPT ![o].status = "assigned",
                                       ![o].assignedDrone = w.drones[d].id]]]
    ELSE [ok |-> FALSE, w |-> w]

\* unvisited[i].priority === 'alta' ? 0.7 : ... 'media' ? 0.85 : 1.0, times 100
priorityWeight100(p) == CASE p = "alta" -> 70 [] p = "media" -> 85 [] OTHER -> 100

\* The inner for loop of Drone.optimizeRoute from index i on (1-based): the
\* candidate wins when distance * priorityWeight < nearestDistance, and
\* nearestDistance then becomes the unweighted distance.
RECURSIVE droneNearest(_, _, _, _, _, _)
droneNearest(obj, unvisited, cur, i, nearestIndex, nearestDistance) ==
    IF i > Len(unvisited) THEN nearestIndex
    ELSE LET distance == calculateDistance(cur, obj[unvisited[i]].location)
         IN  IF distance * priorityWeight100(obj[unvisited[i]].priority)
                    < nearestDistance * 100
             THEN droneNearest(obj, unvisited, cur, i + 1, i, distance)
             ELSE droneNearest(obj, unvisited, cur, i + 1, nearestIndex,
                               nearestDistance)

\* The while loop of Drone.optimizeRoute: the orders in visiting order.
RECURSIVE droneVisit(_, _, _)
droneVisit(obj, unvisited, cur) ==
    IF unvisited = <<>> THEN <<>>
    ELSE LET k == droneNearest(obj, unvisited, cur, 2, 1,
                      calculateDistance(cur, obj[unvisited[1]].location))
         IN  <<unvisited[k]>>
               \o droneVisit(obj, RemoveAt(unvisited, k), obj[unvisited[k]].location)

BasePoint == [x |-> BaseX, y |-> BaseY, type |-> "base", order |-> 0]

DeliveryPoint(obj, o) ==
    [x |-> obj[o].location.x, y |-> obj[o].location.y, type |-> "delivery",
     order |-> o]

\* Drone.optimizeRoute(): sorts assignedOrders in place by priority and sets
\* currentRoute; with no orders it returns [] and changes nothing.
optimizeRoute(drone, obj) ==
    IF drone.assignedOrders = <<>> THEN drone
    ELSE LET sortedOrders == StableSort(drone.assignedOrders,
                 LAMBDA a, b : priorityScore(obj[a].priority)
                                 > priorityScore(obj[b].priority))
             visit == droneVisit(obj, sortedOrders, basePosition)
         IN  [drone EXCEPT
                !.assignedOrders = sortedOrders,
                !.currentRoute = <<BasePoint>>
                    \o [k \in 1..Len(visit) |-> DeliveryPoint(obj, visit[k])]
                    \o <<BasePoint>>]

\* The delays of the timers, in ms: startDelivery, completeDelivery and
\* stopAllOperations wait 1000, deliverOrder and simulateMovement 500, and
\* moveToPoint takes distance / speed * 1000 with speed 0.5.
LongDelay == 1000
ShortDelay == 500
MoveDelayPerKm == 2000

TimerDelay(kind) == IF kind \in {"fly", "step"} THEN ShortDelay ELSE LongDelay

\* A pending timer.  from and target are the route points a movement was
\* started with (currentPoint and nextPoint of simulateMovement).
Timer(kind, d) ==
    [kind |-> kind, drone |-> d, delay |-> TimerDelay(kind),
     from |-> BasePoint, target |-> BasePoint]

MoveTimer(d, position, from, target) ==
    [kind |-> "move", drone |-> d,
     delay |-> calculateDistance(position, target) * MoveDelayPerKm,
     from |-> from, target |-> target]

\* Timer k of the pending timers ts can be the next to fire: a timer that was
\* registered before it with a delay that is not longer fires before it.
Due(ts, k) == \A j \in 1..(k - 1) : ts[j].delay > ts[k].delay

\* Drone.startDelivery() for a drone that holds orders: loading, the route,
\* totalDistance, and the 1000 ms loading timer.
startDelivery(drone, obj) ==
    LET routed == optimizeRoute([drone EXCEPT !.status = "loading"], obj)
    IN  [routed EXCEPT
            !.totalDistance = @ + calculateRouteDistance(routed.currentRoute)]

\* Drone.completeDelivery(), up to its 1000 ms timer.
completeDelivery(drone) ==
    [drone EXCEPT !.status = "returning", !.position = basePosition,
                  !.currentLoad = 0, !.assignedOrders = <<>>,
                  !.currentRoute = <<>>, !.currentRouteIndex = 0]

\* Drone.reset()
reset(drone) ==
    [drone EXCEPT !.currentLoad = 0, !.battery = BatteryFull,
                  !.position = basePosition, !.status = "idle",
                  !.assignedOrders = <<>>, !.currentRoute = <<>>,
                  !.currentRouteIndex = 0]

\* Drone.needsToReturn()
LowBattery == 20
needsToReturn(drone) == drone.battery < LowBattery

\* Drone.getEfficiency()
getEfficiency(drone) ==
    IF drone.totalDistance = 0 THEN 0
    ELSE RoundDiv(drone.deliveriesCount * 100, drone.totalDistance)

(* ---- OrderController, DroneController ---- *)

\* OrderController.getPendingOrders(): a new array of the pending orders.
getPendingOrders(os, obj) == Filter(os, LAMBDA o : obj[o].status = "pending")

\* DroneController.getAvailableDrones(): the drones (by index) that are idle
\* and do not need to return.
getAvailableDrones(ds) ==
    Filter([i \in 1..Len(ds) |-> i],
           LAMBDA i : ds[i].status = "idle" /\ ~needsToReturn(ds[i]))

\* drones.filter(d => d.status === 'idle')
idleDrones(ds) ==
    Filter([i \in 1..Len(ds) |-> i], LAMBDA i : ds[i].status = "idle")

\* DroneController.getDroneById(droneId): the index of the first drone with
\* the id, 0 for null.
getDroneById(ds, droneId) ==
    IF \E i \in 1..Len(ds) : ds[i].id = droneId
    THEN CHOOSE i \in 1..Len(ds) :
            /\ ds[i].id = droneId
            /\ \A j \in 1..(i - 1) : ds[j].id # droneId
    ELSE 0

NoBest == [drone |-> 0, num |-> -1, den |-> 1]

\* DroneController.findBestDroneForOrder(order): the score
\* (1 / (distance + 1)) * capacityUtilization * (efficiency / 100) is kept as
\* the fraction num / den; a later drone wins only with a greater score.
findBestDroneForOrder(w, o) ==
    LET availableDrones == getAvailableDrones(w.drones)
        best[i \in 0..Len(availableDrones)] ==
            IF i = 0 THEN NoBest
            ELSE LET d == availableDrones[i]
                     drone == w.drones[d]
                     distanceToOrder == calculateDistance(drone.position, w.obj[o].location)
                     efficiency == IF getEfficiency(drone) = 0 THEN 50
                                   ELSE getEfficiency(drone)
                     num == (drone.currentLoad + w.obj[o].weight) * efficiency
                     den == (distanceToOrder + 1) * drone.capacity * 100
                 IN  IF ~canCarryOrder(drone, w.obj[o]) THEN best[i - 1]
                     ELSE IF RatGreater(num, den, best[i - 1].num, best[i - 1].den)
                          THEN [drone |-> d, num |-> num, den |-> den]
                          ELSE best[i - 1]
    IN  best[Len(availableDrones)].drone

\* DroneController.assignOrderToDrone(order)
assignOrderToDrone(w, o) ==
    Let(findBestDroneForOrder(w, o), LAMBDA bestDrone :
        IF bestDrone # 0 THEN assignOrder(w, bestDrone, o) @@ [drone |-> bestDrone]
        ELSE [ok |-> FALSE, w |-> w, drone |-> 0])

\* The comparator of optimizeOrderDistribution: priority, then waiting time.
distributionLess(obj, now, a, b) ==
    \/ priorityScore(obj[a].priority) > priorityScore(obj[b].priority)
    \/ /\ priorityScore(obj[a].priority) = priorityScore(obj[b].priority)
       /\ getWaitingTime(obj[a], now) > getWaitingTime(obj[b], now)

\* A decision of an assignment pass: the order committed, the drone that took
\* it, the objects at the decision point and the orders the pass was given.
Decision(o, d, w, given) == [order |-> o, drone |-> d, w |-> w, given |-> given]

\* DroneController.optimizeOrderDistribution(orders) past its guard: the
\* objects afterwards, the count, and the decisions taken.
optimizeOrderDistribution(w, os, now) ==
    Let(StableSort(os, LAMBDA a, b : distributionLess(w.obj, now, a, b)),
        LAMBDA sortedOrders :
            LET pass[i \in 0..Len(sortedOrders)] ==
                    IF i = 0 THEN [w |-> w, assignedOrders |-> 0, log |-> <<>>]
                    ELSE Let(pass[i - 1], LAMBDA prev :
                         Let(assignOrderToDrone(prev.w, sortedOrders[i]), LAMBDA r :
                             IF prev.w.obj[sortedOrders[i]].status = "pending" /\ r.ok
                             THEN [w |-> r.w,
                                   assignedOrders |-> prev.assignedOrders + 1,
                                   log |-> Append(prev.log,
                                              Decision(sortedOrders[i], r.drone,
                                                       prev.w, sortedOrders))]
                             ELSE prev))
            IN  pass[Len(sortedOrders)])

(* ---- DeliveryController ---- *)

\* Order.updateStatus(newStatus) with no drone id.
updateStatus(order, newStatus) == [order EXCEPT !.status = newStatus]

\* The comparator of prioritizeOrders: priority, waiting time, lighter first.
prioritizeLess(obj, now, a, b) ==
    \/ priorityScore100(obj[a].priority) > priorityScore100(obj[b].priority)
    \/ /\ priorityScore100(obj[a].priority) = priorityScore100(obj[b].priority)
       /\ \/ getWaitingTime(obj[a], now) > getWaitingTime(obj[b], now)
          \/ /\ getWaitingTime(obj[a], now) = getWaitingTime(obj[b], now)
             /\ obj[a].weight < obj[b].weight

\* DeliveryController.prioritizeOrders(orders)
prioritizeOrders(obj, os, now) ==
    StableSort(os, LAMBDA a, b : prioritizeLess(obj, now, a, b))

\* The inner for loop of calculateGroupDistance from index i on (1-based).
RECURSIVE groupNearest(_, _, _, _, _, _)
groupNearest(obj, unvisited, cur, i, nearestIndex, nearestDistance) ==
    IF i > Len(unvisited) THEN nearestIndex
    ELSE LET distance == calculateDistance(cur, obj[unvisited[i]].location)
         IN  IF distance < nearestDistance
             THEN groupNearest(obj, unvisited, cur, i + 1, i, distance)
             ELSE groupNearest(obj, unvisited, cur, i + 1, nearestIndex,
                               nearestDistance)

\* The while loop of calculateGroupDistance and the return leg.
RECURSIVE groupTour(_, _, _)
groupTour(obj, unvisited, cur) ==
    IF unvisited = <<>> THEN calculateDistance(cur, basePosition)
    ELSE LET k == groupNearest(obj, unvisited, cur, 2, 1,
                      calculateDistance(cur, obj[unvisited[1]].location))
             nearestOrder == unvisited[k]
         IN  calculateDistance(cur, obj[nearestOrder].location)
               + groupTour(obj, RemoveAt(unvisited, k), obj[nearestOrder].location)

\* DeliveryController.calculateGroupDistance(orders, basePosition)
calculateGroupDistance(obj, os) ==
    IF os = <<>> THEN 0 ELSE groupTour(obj, os, basePosition)

\* The for loop of createOptimalGroups, from index i (1-based) down.
RECURSIVE groupScan(_, _, _, _, _, _, _)
groupScan(obj, group, unassigned, i, currentWeight, maxCapacity, maxRange) ==
    IF i = 0 THEN [group |-> group, unassigned |-> unassigned]
    ELSE LET candidateOrder == unassigned[i]
             newWeight == currentWeight + obj[candidateOrder].weight
         IN  IF \/ newWeight > maxCapacity
                \/ calculateGroupDistance(obj, Append(group, candidateOrder)) > maxRange
             THEN groupScan(obj, group, unassigned, i - 1, currentWeight,
                            maxCapacity, maxRange)
             ELSE groupScan(obj, Append(group, candidateOrder),
                            RemoveAt(unassigned, i), i - 1, newWeight,
                            maxCapacity, maxRange)

\* The while loop of createOptimalGroups.
RECURSIVE groupLoop(_, _, _, _)
groupLoop(obj, unassigned, maxCapacity, maxRange) ==
    IF unassigned = <<>> THEN <<>>
    ELSE LET firstOrder == Head(unassigned)
             r == groupScan(obj, <<firstOrder>>, Tail(unassigned),
                            Len(unassigned) - 1, obj[firstOrder].weight,
                            maxCapacity, maxRange)
         IN  <<r.group>> \o groupLoop(obj, r.unassigned, maxCapacity, maxRange)

SeqMax(s) == CHOOSE m \in Range(s) : \A e \in Range(s) : e <= m

\* DeliveryController.createOptimalGroups(orders, drones)
createOptimalGroups(w, os, ds) ==
    groupLoop(w.obj, os,
              SeqMax([i \in 1..Len(ds) |-> w.drones[ds[i]].capacity]),
              SeqMax([i \in 1..Len(ds) |-> w.drones[ds[i]].range]))

\* DeliveryController.findBestDroneForGroup(group, drones): the score
\* capacityUtilization / (avgDistance + 1) kept as the fraction num / den.
findBestDroneForGroup(w, group, ds) ==
    LET totalWeight == SumOver(group, LAMBDA o : w.obj[o].weight)
        totalDistance == calculateGroupDistance(w.obj, group)
        best[i \in 0..Len(ds)] ==
            IF i = 0 THEN NoBest
            ELSE LET drone == w.drones[ds[i]]
                     num == (drone.currentLoad + totalWeight) * Len(group)
                     den == drone.capacity * (totalDistance + Len(group))
                 IN  IF \/ drone.status # "idle"
                        \/ drone.currentLoad + totalWeight > drone.capacity
                        \/ totalDistance > drone.range
                     THEN best[i - 1]
                     ELSE IF RatGreater(num, den, best[i - 1].num, best[i - 1].den)
                          THEN [drone |-> ds[i], num |-> num, den |-> den]
                          ELSE best[i - 1]
    IN  best[Len(ds)].drone

\* for (const order of group) { if (!bestDrone.assignOrder(order)) break }
assignGroup(w, d, group) ==
    LET st[i \in 0..Len(group)] ==
            IF i = 0 THEN [w |-> w, ok |-> TRUE]
            ELSE IF ~st[i - 1].ok THEN st[i - 1]
                 ELSE assignOrder(st[i - 1].w, d, group[i])
    IN  st[Len(group)]

\* Math.max(...group.map(o => o.getPriorityScore()))
groupMaxPriority(obj, group) ==
    SeqMax([i \in 1..Len(group) |-> priorityScore(obj[group[i]].priority)])

\* DeliveryController.assignGroupsToDrones(groups, drones)
assignGroupsToDrones(w, groups, ds) ==
    LET sortedGroups == StableSort(groups,
            LAMBDA a, b : groupMaxPriority(w.obj, a) > groupMaxPriority(w.obj, b))
        pass[i \in 0..Len(sortedGroups)] ==
            IF i = 0 THEN [w |-> w, assignedOrders |-> 0, assignedGroups |-> 0]
            ELSE LET prev == pass[i - 1]
                     group == sortedGroups[i]
                     bestDrone == findBestDroneForGroup(prev.w, group, ds)
                     r == assignGroup(prev.w, bestDrone, group)
                 IN  IF bestDrone = 0 THEN prev
                     ELSE IF r.ok
                          THEN [w |-> r.w,
                                assignedOrders |-> prev.assignedOrders + Len(group),
                                assignedGroups |-> prev.assignedGroups + 1]
                          ELSE [prev EXCEPT !.w = r.w]
    IN  pass[Len(sortedGroups)]

\* DeliveryController.performAdvancedOptimization(orders, drones)
performAdvancedOptimization(w, os, ds, now) ==
    LET sortedOrders == prioritizeOrders(w.obj, os, now)
        orderGroups == createOptimalGroups(w, sortedOrders, ds)
    IN  assignGroupsToDrones(w, orderGroups, ds)

(* ---- The browser store: state, operations and timers ---- *)

NumDrones == 2
MaxOrders == 3
StoreOrders == 2
MaxClock == 1
MaxTimers == 2

\* The order forms submitted: an order east and one west of the base that fit
\* one drone together by weight, and one out of range.
OrderData ==
    {[location |-> Pt(13, 10), weight |-> 3, priority |-> "alta"],
     [location |-> Pt(7, 10), weight |-> 2, priority |-> "baixa"],
     [location |-> Pt(16, 10), weight |-> 2, priority |-> "media"]}

World == [drones |-> drones, obj |-> orderObj]

\* No run is left to its timers.
NoStart == [quiet |-> FALSE, assigned |-> <<>>]

NoCall == [op |-> "none", success |-> FALSE, assigned |-> 0, log |-> <<>>,
           given |-> <<>>, before |-> [drones |-> <<>>, obj |-> <<>>],
           named |-> "none", maxDistance |-> 0, status |-> 0,
           assignments |-> <<>>]

\* What an assignment pass was given, returned and decided; named is the
\* strategy the caller of optimizeDeliveries asked for, maxDistance the
\* value sent to POST /otimizar, status the HTTP status of a response of the
\* REST store, assignments the list of the result where it has one.
Call(op, success, assigned, log, given) ==
    [op |-> op, success |-> success, assigned |-> assigned, log |-> log,
     given |-> given, before |-> World, named |-> "none", maxDistance |-> 0,
     status |-> 0, assignments |-> <<>>]

\* DeliveryController.initialize() and initializeDrones() with droneCount set
\* to count.
InitFleet(count) ==
    /\ clock = 0
    /\ orderObj = <<>>
    /\ orders = <<>>
    /\ deliveredOrders = <<>>
    /\ orderIdCounter = 1
    /\ drones = [i \in 1..count |-> NewDrone(i, DroneCapacity, DroneRange)]
    /\ timers = <<>>
    /\ isSimulationRunning = FALSE
    /\ simulationInterval = FALSE
    /\ lastCall = NoCall
    /\ droneIdCounter = 0
    /\ simStart = NoStart
    /\ CarryOff
    /\ TwoOptOff
    /\ ClusterOff
    /\ RouteOff
    /\ ServerOff

Init == InitFleet(NumDrones)

\* Time passes: one more minute on the wall clock.
Tick ==
    /\ clock < MaxClock
    /\ clock' = clock + 1
    /\ lastCall' = NoCall
    /\ UNCHANGED <<orderObj, orders, deliveredOrders, orderIdCounter, drones,
                   timers, isSimulationRunning, simulationInterval>>
    /\ UNCHANGED <<ccVars, toVars, clVars, rtVars, rlVars, apiVars, simVars>>

\* OrderController.addOrder(orderData) with valid data, one of the forms in
\* data, while fewer than max orders have been created.
addOrder(data, max) ==
    \E orderData \in data :
        /\ Len(orderObj) < max
        /\ orderObj' = Append(orderObj,
               NewOrder(orderIdCounter, orderData.location, orderData.weight,
                        orderData.priority, clock))
        /\ orders' = Append(orders, Len(orderObj) + 1)
        /\ orderIdCounter' = orderIdCounter + 1
        /\ lastCall' = NoCall
        /\ UNCHANGED <<clock, deliveredOrders, drones, timers,
                       isSimulationRunning, simulationInterval>>
        /\ UNCHANGED <<ccVars, toVars, clVars, rtVars, rlVars, apiVars, simVars>>

AddOrder == addOrder(OrderData, StoreOrders)

\* orders.findIndex(order => order.id === orderId), 1-based, 0 for -1.
findIndex(os, obj, orderId) ==
    IF \E i \in 1..Len(os) : obj[os[i]].id = orderId
    THEN CHOOSE i \in 1..Len(os) :
            /\ obj[os[i]].id = orderId
            /\ \A j \in 1..(i - 1) : obj[os[j]].id # orderId
    ELSE 0

\* OrderController.removeOrder(orderId) for an id that is in the list.
RemoveOrder ==
    \E orderId \in 1..MaxOrders :
        LET orderIndex == findIndex(orders, orderObj, orderId)
            order == orderObj[orders[orderIndex]]
            d == getDroneById(drones, order.assignedDrone)
        IN  /\ orderIndex # 0
            /\ drones' =
                 IF order.assignedDrone # 0 /\ d # 0
                 THEN [drones EXCEPT
                         ![d].assignedOrders =
                             Filter(@, LAMBDA o : orderObj[o].id # orderId),
                         ![d].currentLoad = Max(0, @ - order.weight)]
                 ELSE drones
            /\ orders' = RemoveAt(orders, orderIndex)
            /\ lastCall' = NoCall
            /\ UNCHANGED <<clock, orderObj, deliveredOrders, orderIdCounter,
                           timers, isSimulationRunning, simulationInterval>>
            /\ UNCHANGED <<ccVars, toVars, clVars, rtVars, rlVars, apiVars, simVars>>

\* OrderController.markAsDelivered(orderId) for an id that is in the list.
MarkAsDelivered ==
    \E orderId \in 1..MaxOrders :
        LET orderIndex == findIndex(orders, orderObj, orderId)
        IN  /\ orderIndex # 0
            /\ orderObj' = [orderObj EXCEPT
                              ![orders[orderIndex]] = updateStatus(@, "delivered")]
            /\ deliveredOrders' = Append(deliveredOrders, orders[orderIndex])
            /\ orders' = RemoveAt(orders, orderIndex)
            /\ lastCall' = NoCall
            /\ UNCHANGED <<clock, orderIdCounter, drones, timers,
                           isSimulationRunning, simulationInterval>>
            /\ UNCHANGED <<ccVars, toVars, clVars, rtVars, rlVars, apiVars, simVars>>

\* DeliveryController.optimizeDeliveries(): the objects afterwards and the
\* result returned.
optimizeDeliveries(w, os, now) ==
    Let(getPendingOrders(os, w.obj), LAMBDA pendingOrders :
    Let(getAvailableDrones(w.drones), LAMBDA availableDrones :
        IF pendingOrders = <<>> \/ availableDrones = <<>>
        THEN [w |-> w, success |-> FALSE, assignedOrders |-> 0]
        ELSE Let(performAdvancedOptimization(w, pendingOrders, availableDrones, now),
                 LAMBDA r : [w |-> r.w, success |-> r.assignedOrders > 0,
                             assignedOrders |-> r.assignedOrders])))

\* The objects after a call, written back.
Store(w) ==
    /\ drones' = w.drones
    /\ orderObj' = w.obj

\* The "Otimizar Entregas" button.
OptimizeDeliveries ==
    /\ Let(optimizeDeliveries(World, orders, clock), LAMBDA r : Store(r.w))
    /\ lastCall' = NoCall
    /\ UNCHANGED <<clock, orders, deliveredOrders, orderIdCounter, timers,
                   isSimulationRunning, simulationInterval>>
    /\ UNCHANGED <<ccVars, toVars, clVars, rtVars, rlVars, apiVars, simVars>>

\* DroneController.startAllDeliveries(): every idle drone with orders starts
\* its delivery and registers its loading timer.
startAllDeliveries(ds, obj, ts) ==
    LET pass[i \in 0..Len(ds)] ==
            IF i = 0 THEN [drones |-> ds, timers |-> ts, deliveriesStarted |-> 0]
            ELSE LET prev == pass[i - 1]
                 IN  IF ds[i].assignedOrders # <<>> /\ ds[i].status = "idle"
                     THEN [drones |-> [prev.drones EXCEPT
                                         ![i] = startDelivery(ds[i], obj)],
                           timers |-> Append(prev.timers, Timer("load", i)),
                           deliveriesStarted |-> prev.deliveriesStarted + 1]
                     ELSE prev
    IN  pass[Len(ds)]

\* getAllDrones().filter(drone => drone.assignedOrders.length > 0).length > 0
withOrders(ds) == \E i \in 1..Len(ds) : ds[i].assignedOrders # <<>>

\* DeliveryController.startSimulation() from the point where opt, the result
\* of the optimization it may run first, is known.
startSimulationAfter(opt) ==
    Let(startAllDeliveries(opt.w.drones, opt.w.obj, timers), LAMBDA started :
        /\ Len(started.timers) <= MaxTimers
        /\ orderObj' = opt.w.obj
        /\ IF opt.success /\ withOrders(opt.w.drones)
              /\ started.deliveriesStarted > 0
           THEN /\ drones' = started.drones
                /\ timers' = started.timers
                /\ isSimulationRunning' = TRUE
                /\ simulationInterval' = TRUE
           ELSE /\ drones' = (IF opt.success /\ withOrders(opt.w.drones)
                              THEN started.drones ELSE opt.w.drones)
                /\ UNCHANGED <<timers, isSimulationRunning, simulationInterval>>)

\* DeliveryController.startSimulation() while no simulation runs.
startSimulation ==
    /\ ~isSimulationRunning
    /\ Let(IF withOrders(drones)
           THEN [w |-> World, success |-> TRUE, assignedOrders |-> 0]
           ELSE optimizeDeliveries(World, orders, clock),
           startSimulationAfter)
    /\ lastCall' = NoCall
    /\ UNCHANGED <<clock, orders, deliveredOrders, orderIdCounter>>
    /\ UNCHANGED <<ccVars, toVars, clVars, rtVars, rlVars, apiVars>>

\* The "Iniciar Simulação" button.
StartSimulation ==
    /\ startSimulation
    /\ UNCHANGED simVars

\* DeliveryController.stopSimulation() while the simulation runs.
StopSimulation ==
    /\ isSimulationRunning
    /\ isSimulationRunning' = FALSE
    /\ simulationInterval' = FALSE
    /\ lastCall' = NoCall
    /\ UNCHANGED <<clock, orderObj, orders, deliveredOrders, orderIdCounter,
                   drones, timers>>
    /\ UNCHANGED <<ccVars, toVars, clVars, rtVars, rlVars, apiVars, simVars>>

\* The 1000 ms interval of startSimulation: updateSimulationProgress() stops
\* the simulation once no drone is active.
UpdateSimulationProgress ==
    /\ simulationInterval
    /\ \A i \in 1..Len(drones) : drones[i].status = "idle"
    /\ isSimulationRunning' = FALSE
    /\ simulationInterval' = FALSE
    /\ lastCall' = NoCall
    /\ UNCHANGED <<clock, orderObj, orders, deliveredOrders, orderIdCounter,
                   drones, timers>>
    /\ UNCHANGED <<ccVars, toVars, clVars, rtVars, rlVars, apiVars, simVars>>

\* DroneController.stopAllOperations(): every drone that is not idle turns
\* back and gets a 1000 ms timer that completes its delivery.
StopAllOperations ==
    LET active == Filter([i \in 1..Len(drones) |-> i],
                         LAMBDA i : drones[i].status # "idle")
    IN  /\ active # <<>>
        /\ Len(timers) + Len(active) <= MaxTimers
        /\ drones' = [i \in 1..Len(drones) |->
                        IF drones[i].status # "idle"
                        THEN [drones[i] EXCEPT !.status = "returning"]
                        ELSE drones[i]]
        /\ timers' = timers \o [k \in 1..Len(active) |-> Timer("stop", active[k])]
        /\ lastCall' = NoCall
        /\ UNCHANGED <<clock, orderObj, orders, deliveredOrders, orderIdCounter,
                       isSimulationRunning, simulationInterval>>
        /\ UNCHANGED <<ccVars, toVars, clVars, rtVars, rlVars, apiVars, simVars>>

\* DeliveryController.resetSystem(): stopSimulation(), resetAllDrones(),
\* clearAllOrders().  The timers of the drones are not cancelled.
ResetSystem ==
    /\ isSimulationRunning' = FALSE
    /\ simulationInterval' = FALSE
    /\ drones' = [i \in 1..Len(drones) |-> reset(drones[i])]
    /\ orders' = <<>>
    /\ deliveredOrders' = <<>>
    /\ orderIdCounter' = 1
    /\ lastCall' = NoCall
    /\ UNCHANGED <<clock, orderObj, timers>>
    /\ UNCHANGED <<ccVars, toVars, clVars, rtVars, rlVars, apiVars, simVars>>

\* Drone.simulateMovement() of drone d: at the end of the route the delivery
\* is completed, otherwise the drone moves to the next point of the route.
simulateMovement(ds, ts, d) ==
    LET drone == ds[d]
    IN  IF drone.currentRouteIndex >= Len(drone.currentRoute) - 1
        THEN [drones |-> [ds EXCEPT ![d] = completeDelivery(drone)],
              timers |-> Append(ts, Timer("idle", d))]
        ELSE [drones |-> ds,
              timers |-> Append(ts,
                  MoveTimer(d, drone.position,
                            drone.currentRoute[drone.currentRouteIndex + 1],
                            drone.currentRoute[drone.currentRouteIndex + 2]))]

\* Drone.deliverOrder(order), up to its 500 ms timer.
deliverOrder(w, d, o) ==
    [drones |-> [w.drones EXCEPT
                   ![d].status = "delivering",
                   ![d].deliveriesCount = @ + 1,
                   ![d].currentLoad = @ - w.obj[o].weight,
                   ![d].assignedOrders =
                       Filter(@, LAMBDA a : w.obj[a].id # w.obj[o].id)],
     obj |-> [w.obj EXCEPT ![o].status = "delivered"]]

TimerFrame ==
    /\ lastCall' = NoCall
    /\ UNCHANGED <<clock, orders, deliveredOrders, orderIdCounter,
                   isSimulationRunning, simulationInterval>>
    /\ UNCHANGED <<ccVars, toVars, clVars, rtVars, rlVars, apiVars, simVars>>

\* The 1000 ms timer of startDelivery fires.
FireLoad ==
    \E k \in 1..Len(timers) :
        LET d == timers[k].drone
            r == simulateMovement(
                     [drones EXCEPT ![d].status = "flying",
                                    ![d].currentRouteIndex = 0],
                     RemoveAt(timers, k), d)
        IN  /\ timers[k].kind = "load"
            /\ Due(timers, k)
            /\ drones' = r.drones
            /\ timers' = r.timers
            /\ UNCHANGED orderObj
            /\ TimerFrame

\* The last tick of the interval of moveToPoint fires: the drone is at the
\* target and the callback of simulateMovement runs.
FireMove ==
    \E k \in 1..Len(timers) :
        LET d == timers[k].drone
            currentPoint == timers[k].from
            nextPoint == timers[k].target
            arrived == [drones |-> [drones EXCEPT
                                      ![d].position = Pt(nextPoint.x, nextPoint.y)],
                        obj |-> orderObj]
            w == IF nextPoint.type = "delivery"
                 THEN deliverOrder(arrived, d, nextPoint.order)
                 ELSE arrived
            distance == calculateDistance(currentPoint, nextPoint)
        IN  /\ timers[k].kind = "move"
            /\ Due(timers, k)
            /\ drones' = [w.drones EXCEPT
                            ![d].currentRouteIndex = @ + 1,
                            ![d].battery =
                                Max(0, @ - calculateBatteryNeeded(distance))]
            /\ orderObj' = w.obj
            /\ timers' = RemoveAt(timers, k)
                           \o (IF nextPoint.type = "delivery"
                               THEN <<Timer("fly", d)>> ELSE <<>>)
                           \o <<Timer("step", d)>>
            /\ TimerFrame

\* The 500 ms timer of deliverOrder fires.
FireFly ==
    \E k \in 1..Len(timers) :
        /\ timers[k].kind = "fly"
        /\ Due(timers, k)
        /\ drones' = [drones EXCEPT ![timers[k].drone].status = "flying"]
        /\ timers' = RemoveAt(timers, k)
        /\ UNCHANGED orderObj
        /\ TimerFrame

\* The 500 ms timer of simulateMovement fires.
FireStep ==
    \E k \in 1..Len(timers) :
        LET d == timers[k].drone
            r == simulateMovement(drones, RemoveAt(timers, k), d)
        IN  /\ timers[k].kind = "step"
            /\ Due(timers, k)
            /\ drones' = r.drones
            /\ timers' = r.timers
            /\ UNCHANGED orderObj
            /\ TimerFrame

\* The 1000 ms timer of completeDelivery fires.
FireIdle ==
    \E k \in 1..Len(timers) :
        /\ timers[k].kind = "idle"
        /\ Due(timers, k)
        /\ drones' = [drones EXCEPT ![timers[k].drone].status = "idle",
                                    ![timers[k].drone].battery = BatteryFull]
        /\ timers' = RemoveAt(timers, k)
        /\ UNCHANGED orderObj
        /\ TimerFrame

\* The 1000 ms timer of stopAllOperations fires.
FireStop ==
    \E k \in 1..Len(timers) :
        /\ timers[k].kind = "stop"
        /\ Due(timers, k)
        /\ drones' = [drones EXCEPT ![timers[k].drone] = completeDelivery(@)]
        /\ timers' = Append(RemoveAt(timers, k), Timer("idle", timers[k].drone))
        /\ UNCHANGED orderObj
        /\ TimerFrame

(* ---- OptimizationAlgorithm: the strategies ---- *)

\* OptimizationAlgorithm.calculateAssignmentScore(order, drone), as the
\* fraction num / den of
\* (capacityUtilization * batteryFactor) / (distance + 0.1).
calculateAssignmentScore(order, drone) ==
    [num |-> (drone.currentLoad + order.weight) * drone.battery * 10,
     den |-> drone.capacity * 100
               * (10 * calculateDistance(drone.position, order.location) + 1)]

\* The inner loop of greedyAssignment: the best of the idle drones that can
\* carry the order, 0 for null.
greedyBestDrone(w, availableDrones, o) ==
    LET best[i \in 0..Len(availableDrones)] ==
            IF i = 0 THEN NoBest
            ELSE LET d == availableDrones[i]
                     score == calculateAssignmentScore(w.obj[o], w.drones[d])
                 IN  IF /\ canCarryOrder(w.drones[d], w.obj[o])
                        /\ RatGreater(score.num, score.den,
                                      best[i - 1].num, best[i - 1].den)
                     THEN [drone |-> d, num |-> score.num, den |-> score.den]
                     ELSE best[i - 1]
    IN  best[Len(availableDrones)].drone

\* The bookkeeping of greedyAssignment after a commit to bestDrone: a new entry
\* when this is the first order the drone holds, else the order joins the
\* entry of the drone if there is one.
recordAssignment(assignments, drone, orderId) ==
    IF Len(drone.assignedOrders) = 1
    THEN Append(assignments, [drone |-> drone.id, orders |-> <<orderId>>])
    ELSE IF \E k \in 1..Len(assignments) : assignments[k].drone = drone.id
         THEN LET k == CHOOSE k \in 1..Len(assignments) :
                          /\ assignments[k].drone = drone.id
                          /\ \A j \in 1..(k - 1) : assignments[j].drone # drone.id
              IN  [assignments EXCEPT ![k].orders = Append(@, orderId)]
         ELSE assignments

\* OptimizationAlgorithm.greedyAssignment(orders, drones): the objects
\* afterwards, the result returned and the decisions taken.
greedyAssignment(w, os, ds) ==
    Let(Filter(ds, LAMBDA d : w.drones[d].status = "idle"), LAMBDA availableDrones :
        LET pass[i \in 0..Len(os)] ==
                IF i = 0
                THEN [w |-> w, assignedOrdersCount |-> 0, assignments |-> <<>>,
                      log |-> <<>>]
                ELSE Let(pass[i - 1], LAMBDA prev :
                     IF prev.w.obj[os[i]].status # "pending" THEN prev
                     ELSE Let(greedyBestDrone(prev.w, availableDrones, os[i]),
                          LAMBDA bestDrone :
                          IF bestDrone = 0 THEN prev
                          ELSE Let(assignOrder(prev.w, bestDrone, os[i]), LAMBDA r :
                               IF r.ok
                               THEN [w |-> r.w,
                                     assignedOrdersCount |->
                                         prev.assignedOrdersCount + 1,
                                     assignments |->
                                         recordAssignment(prev.assignments,
                                             r.w.drones[bestDrone],
                                             prev.w.obj[os[i]].id),
                                     log |-> Append(prev.log,
                                                Decision(os[i], bestDrone,
                                                         prev.w, os))]
                               ELSE prev)))
        IN  Let(pass[Len(os)], LAMBDA done :
                [w |-> done.w, success |-> done.assignedOrdersCount > 0,
                 assigned |-> done.assignedOrdersCount,
                 assignments |-> done.assignments, log |-> done.log,
                 strategy |-> "greedy_assignment"]))

\* Mutant: lowest priority first.
priorityFirstLess_Ascending(obj, now, a, b) ==
    priorityScore100(obj[a].priority) < priorityScore100(obj[b].priority)

\* The comparator of priorityFirstOptimization: priority, then waiting time.
priorityFirstLess(obj, now, a, b) ==
    \/ priorityScore100(obj[a].priority) > priorityScore100(obj[b].priority)
    \/ /\ priorityScore100(obj[a].priority) = priorityScore100(obj[b].priority)
       /\ getWaitingTime(obj[a], now) > getWaitingTime(obj[b], now)

\* OptimizationAlgorithm.priorityFirstOptimization(orders, drones)
priorityFirstOptimization(w, os, ds, now) ==
    greedyAssignment(w,
        StableSort(os, LAMBDA a, b : priorityFirstLess(w.obj, now, a, b)), ds)

\* OptimizationAlgorithm.calculateBalancedScore(order, drones)
calculateBalancedScore(w, o, ds, now) ==
    LET timeBonus == Min(getWaitingTime(w.obj[o], now) * 2, 50)
        minDistance == CHOOSE m \in {calculateDistance(w.drones[ds[i]].position,
                                          w.obj[o].location) : i \in 1..Len(ds)} :
                           \A i \in 1..Len(ds) :
                               m <= calculateDistance(w.drones[ds[i]].position,
                                                      w.obj[o].location)
    IN  priorityScore100(w.obj[o].priority) + timeBonus - minDistance * 5

\* OptimizationAlgorithm.balancedOptimization(orders, drones)
balancedOptimization(w, os, ds, now) ==
    greedyAssignment(w,
        StableSort(os, LAMBDA a, b : calculateBalancedScore(w, a, ds, now)
                                       > calculateBalancedScore(w, b, ds, now)),
        ds)

\* OptimizationAlgorithm.calculateOrderEfficiencyScore(order, drone), as the
\* fraction num / den of
\* (priorityWeight + min(waitingTime / 30, 2)) / (distance + 0.1).
calculateOrderEfficiencyScore(order, drone, now) ==
    [num |-> 10 * (30 * priorityScore(order.priority)
                     + Min(getWaitingTime(order, now), 60)),
     den |-> 30 * (10 * calculateDistance(drone.position, order.location) + 1)]

\* The last loop of findBestOrderCombination: an order joins the combination
\* while its weight fits the capacity that remains.
RECURSIVE takeWhileFits(_, _, _)
takeWhileFits(obj, remainingOrders, remainingCapacity) ==
    IF remainingOrders = <<>> THEN <<>>
    ELSE LET order == Head(remainingOrders)
         IN  IF obj[order].weight <= remainingCapacity
             THEN <<order>> \o takeWhileFits(obj, Tail(remainingOrders),
                                   remainingCapacity - obj[order].weight)
             ELSE takeWhileFits(obj, Tail(remainingOrders), remainingCapacity)

\* OptimizationAlgorithm.findBestOrderCombination(orders, drone)
findBestOrderCombination(w, os, d, now) ==
    LET drone == w.drones[d]
        validOrders == Filter(os, LAMBDA o : canCarryOrder(drone, w.obj[o]))
        score(o) == calculateOrderEfficiencyScore(w.obj[o], drone, now)
        remainingOrders == StableSort(validOrders,
            LAMBDA a, b : RatGreater(score(a).num, score(a).den,
                                     score(b).num, score(b).den))
    IN  takeWhileFits(w.obj, remainingOrders, drone.capacity - drone.currentLoad)

\* bestCombination.forEach(order => { if (drone.assignOrder(order)) ... })
assignCombination(w, pendingOrders, d, combination) ==
    LET st[i \in 0..Len(combination)] ==
            IF i = 0 THEN [w |-> w, pendingOrders |-> pendingOrders, count |-> 0]
            ELSE Let(st[i - 1], LAMBDA prev :
                 Let(assignOrder(prev.w, d, combination[i]), LAMBDA r :
                     IF r.ok
                     THEN [w |-> r.w,
                           pendingOrders |->
                               Filter(prev.pendingOrders,
                                      LAMBDA o : o # combination[i]),
                           count |-> prev.count + 1]
                     ELSE prev))
    IN  st[Len(combination)]

\* The body of the loop of capacityOptimization for drone d: prev is the
\* state before it.
capacityStep(prev, d, now) ==
    Let(findBestOrderCombination(prev.w, prev.pendingOrders, d, now),
        LAMBDA bestCombination :
            IF bestCombination = <<>> THEN prev
            ELSE Let(assignCombination(prev.w, prev.pendingOrders, d,
                                       bestCombination),
                     LAMBDA r :
                         [w |-> r.w, pendingOrders |-> r.pendingOrders,
                          assignments |-> Append(prev.assignments,
                              [drone |-> prev.w.drones[d].id,
                               orders |-> [k \in 1..Len(bestCombination) |->
                                             prev.w.obj[bestCombination[k]].id]]),
                          count |-> prev.count + r.count]))

\* OptimizationAlgorithm.capacityOptimization(orders, drones)
capacityOptimization(w, os, ds, now) ==
    Let(Filter(ds, LAMBDA d : w.drones[d].status = "idle"), LAMBDA availableDrones :
        LET pass[i \in 0..Len(availableDrones)] ==
                IF i = 0
                THEN [w |-> w,
                      pendingOrders |->
                          Filter(os, LAMBDA o : w.obj[o].status = "pending"),
                      assignments |-> <<>>, count |-> 0]
                ELSE capacityStep(pass[i - 1], availableDrones[i], now)
        IN  Let(pass[Len(availableDrones)], LAMBDA done :
                [w |-> done.w, success |-> Len(done.assignments) > 0,
                 assigned |-> done.count, assignments |-> done.assignments,
                 log |-> <<>>, strategy |-> "capacity_optimization"]))

\* A centroid is the point (x / n, y / n).
Centroid(x, y, n) == [x |-> x, y |-> y, n |-> n]

\* calculateDistance(location, a) < calculateDistance(location, b) for two
\* centroids, by the squares of the distances.
nearerCentroid(location, a, b) ==
    LET da == (location.x * a.n - a.x) * (location.x * a.n - a.x)
                + (location.y * a.n - a.y) * (location.y * a.n - a.y)
        db == (location.x * b.n - b.x) * (location.x * b.n - b.x)
                + (location.y * b.n - b.y) * (location.y * b.n - b.y)
    IN  da * b.n * b.n < db * a.n * a.n

\* The loop over the centroids in clusterOrdersByDistance: the index of the
\* nearest centroid, the first one among equals.
nearestCentroid(location, centroids) ==
    LET near[i \in 1..Len(centroids)] ==
            IF i = 1 THEN 1
            ELSE IF nearerCentroid(location, centroids[i], centroids[near[i - 1]])
                 THEN i ELSE near[i - 1]
    IN  near[Len(centroids)]

\* Every order goes to the cluster of its nearest centroid.
assignToCentroids(obj, os, centroids) ==
    Array([i \in 1..Len(centroids) |->
        Filter(os, LAMBDA o : nearestCentroid(obj[o].location, centroids) = i)])

\* The centroid of a cluster that is not empty moves to its mean.
updateCentroids(obj, clusters, centroids) ==
    Array([i \in 1..Len(centroids) |->
        IF clusters[i] = <<>> THEN centroids[i]
        ELSE Centroid(SumOver(clusters[i], LAMBDA o : obj[o].location.x),
                      SumOver(clusters[i], LAMBDA o : obj[o].location.y),
                      Len(clusters[i]))])

KMeansIterations == 3

\* The iterations of clusterOrdersByDistance that are left: the centroids
\* after them.
RECURSIVE kMeans(_, _, _, _)
kMeans(obj, os, centroids, left) ==
    IF left = 0 THEN centroids
    ELSE LET clusters == assignToCentroids(obj, os, centroids)
             moved == updateCentroids(obj, clusters, centroids)
         IN  kMeans(obj, os, moved, left - 1)

\* The centroids drawn at the start of clusterOrdersByDistance; picks[i] is
\* the index Math.floor(Math.random() * orders.length) + 1 drawn for centroid i.
drawCentroids(obj, os, k, picks) ==
    Array([i \in 1..k |->
        Centroid(obj[os[picks[i]]].location.x, obj[os[picks[i]]].location.y, 1)])

\* The centroids after the iterations of clusterOrdersByDistance.
finalCentroids(obj, os, k, picks) ==
    kMeans(obj, os, drawCentroids(obj, os, k, picks), KMeansIterations)

\* Mutant: the empty clusters are returned with the others.
discardEmpty_Keep(clusters) == clusters

\* finalClusters.filter(cluster => cluster.length > 0)
discardEmpty(clusters) == Filter(clusters, LAMBDA cluster : cluster # <<>>)

\* OptimizationAlgorithm.clusterOrdersByDistance(orders, k): the clusters
\* returned, and the local variable centroids at the return.
clusterRun(obj, os, k, picks) ==
    IF Len(os) <= k
    THEN [clusters |-> [i \in 1..Len(os) |-> <<os[i]>>], centroids |-> <<>>]
    ELSE Let(finalCentroids(obj, os, k, picks), LAMBDA centroids :
             [clusters |-> discardEmpty(assignToCentroids(obj, os, centroids)),
              centroids |-> centroids])

\* The value clusterOrdersByDistance(orders, k) returns.
clusterOrdersByDistance(obj, os, k, picks) == clusterRun(obj, os, k, picks).clusters

\* The loop of distanceOptimization over one cluster: an order is taken when
\* canCarryOrder and assignOrder agree to it.
assignCluster(w, d, cluster) ==
    LET st[i \in 0..Len(cluster)] ==
            IF i = 0 THEN [w |-> w, assignedOrders |-> <<>>]
            ELSE Let(st[i - 1], LAMBDA prev :
                 Let(assignOrder(prev.w, d, cluster[i]), LAMBDA r :
                     IF canCarryOrder(prev.w.drones[d], prev.w.obj[cluster[i]])
                        /\ r.ok
                     THEN [w |-> r.w,
                           assignedOrders |-> Append(prev.assignedOrders,
                                                     cluster[i])]
                     ELSE prev))
    IN  st[Len(cluster)]

\* The body of the loop of distanceOptimization for drone d and its cluster:
\* prev is the state before it.
distanceStep(prev, d, cluster) ==
    Let(assignCluster(prev.w, d,
            StableSort(cluster,
                LAMBDA a, b : priorityScore(prev.w.obj[a].priority)
                                > priorityScore(prev.w.obj[b].priority))),
        LAMBDA r :
            IF r.assignedOrders = <<>> THEN [prev EXCEPT !.w = r.w]
            ELSE [w |-> r.w,
                  assignments |-> Append(prev.assignments,
                      [drone |-> prev.w.drones[d].id,
                       orders |-> [k \in 1..Len(r.assignedOrders) |->
                                     prev.w.obj[r.assignedOrders[k]].id]]),
                  count |-> prev.count + Len(r.assignedOrders)])

\* OptimizationAlgorithm.distanceOptimization(orders, drones)
distanceOptimization(w, os, ds, picks) ==
    Let(clusterOrdersByDistance(w.obj, os, Len(ds), picks), LAMBDA clusters :
        LET pass[i \in 0..Min(Len(clusters), Len(ds))] ==
                IF i = 0 THEN [w |-> w, assignments |-> <<>>, count |-> 0]
                ELSE distanceStep(pass[i - 1], ds[i], clusters[i])
        IN  Let(pass[Min(Len(clusters), Len(ds))], LAMBDA done :
                [w |-> done.w, success |-> Len(done.assignments) > 0,
                 assigned |-> done.count, assignments |-> done.assignments,
                 log |-> <<>>, strategy |-> "distance_optimization"]))

\* OptimizationAlgorithm.analyzeDeliveryScenario and selectOptimizationStrategy:
\* avgDistance > 10 is stated on the sum of the distances from the base.
selectOptimizationStrategy(w, os, ds) ==
    LET highPriorityCount ==
            Len(Filter(os, LAMBDA o : w.obj[o].priority = "alta"))
        totalDistance ==
            SumOver(os, LAMBDA o : calculateDistance(w.obj[o].location, basePosition))
    IN  IF 2 * highPriorityCount > Len(os) THEN "priority_first"
        ELSE IF Len(os) > Len(ds) * 3 THEN "capacity_optimization"
        ELSE IF totalDistance > 10 * Len(os) THEN "distance_optimization"
        ELSE "balanced_optimization"

\* OptimizationAlgorithm.applyOptimizationStrategy(orders, drones, strategy)
applyOptimizationStrategy(w, os, ds, strategy, now, picks) ==
    CASE strategy = "priority_first" -> priorityFirstOptimization(w, os, ds, now)
      [] strategy = "capacity_optimization" -> capacityOptimization(w, os, ds, now)
      [] strategy = "distance_optimization" -> distanceOptimization(w, os, ds, picks)
      [] OTHER -> balancedOptimization(w, os, ds, now)

\* What optimizeDeliveries returns for an empty list.
EmptyResult(w) ==
    [w |-> w, success |-> FALSE, assigned |-> 0, assignments |-> <<>>,
     log |-> <<>>, strategy |-> "none"]

\* OptimizationAlgorithm.optimizeDeliveries(orders, drones)
algorithmOptimizeDeliveries(w, os, ds, now, picks) ==
    IF os = <<>> \/ ds = <<>> THEN EmptyResult(w)
    ELSE applyOptimizationStrategy(w, os, ds,
             selectOptimizationStrategy(w, os, ds), now, picks)

(* ---- The assignment engine and its callers ---- *)

\* The order forms of the engine runs: two orders in reach on the row of the
\* base, one out of range, and one heavier than any drone carries.
EngineOrderData ==
    {[location |-> Pt(13, 10), weight |-> 3, priority |-> "media"],
     [location |-> Pt(7, 10), weight |-> 2, priority |-> "baixa"],
     [location |-> Pt(16, 10), weight |-> 2, priority |-> "alta"],
     [location |-> Pt(13, 10), weight |-> 6, priority |-> "baixa"]}

EngineAddOrder == addOrder(EngineOrderData, MaxOrders)

\* The effect of a call of the engine on the store, and the record of it.
EngineCallAs(op, named, r, given) ==
    /\ drones' = r.w.drones
    /\ orderObj' = r.w.obj
    /\ lastCall' = [Call(op, r.success, r.assigned, r.log, given)
                        EXCEPT !.named = named,
                               !.assignments = IF "assignments" \in DOMAIN r
                                               THEN r.assignments ELSE <<>>]
    /\ UNCHANGED <<clock, orders, deliveredOrders, orderIdCounter, timers,
                   isSimulationRunning, simulationInterval>>
    /\ UNCHANGED <<ccVars, toVars, clVars, rtVars, rlVars, apiVars, simVars>>

EngineCall(op, r, given) == EngineCallAs(op, "none", r, given)

NoPicks == <<>>

\* The strategies applyOptimizationStrategy knows by name.
Strategies == {"priority_first", "capacity_optimization", "distance_optimization",
               "balanced_optimization"}

\* applyOptimizationStrategy(orders, drones, strategy) on the pending orders
\* and the idle drones, both not empty as optimizeDeliveries calls it.
ApplyStrategy(strategy, picks) ==
    LET given == getPendingOrders(orders, orderObj)
        ds == idleDrones(drones)
    IN  /\ given # <<>>
        /\ ds # <<>>
        /\ EngineCall(strategy,
               applyOptimizationStrategy(World, given, ds, strategy, clock, picks),
               given)

PriorityFirst == ApplyStrategy("priority_first", NoPicks)

CapacityOptimization == ApplyStrategy("capacity_optimization", NoPicks)

BalancedOptimization == ApplyStrategy("balanced_optimization", NoPicks)

\* The centroids Math.random() can draw: one order index for each drone.
Picks == [1..Len(idleDrones(drones)) -> 1..Len(getPendingOrders(orders, orderObj))]

DistanceOptimization ==
    \E picks \in Picks : ApplyStrategy("distance_optimization", picks)

\* OptimizationAlgorithm.optimizeDeliveries(orders, drones) on the pending
\* orders and the idle drones.  The function has two parameters: the
\* strategy a caller has in mind, or passes as a third argument, is not
\* read.
AlgorithmOptimizeDeliveries ==
    LET given == getPendingOrders(orders, orderObj)
        ds == idleDrones(drones)
    IN  \E named \in Strategies :
        \E picks \in (IF given = <<>> \/ ds = <<>> THEN {NoPicks} ELSE Picks) :
            EngineCallAs("optimizeDeliveries", named,
                algorithmOptimizeDeliveries(World, given, ds, clock, picks), given)

\* DeliveryController.optimizeDeliveries()
AdvancedOptimization ==
    LET r == optimizeDeliveries(World, orders, clock)
    IN  EngineCall("performAdvancedOptimization",
            [w |-> r.w, success |-> r.success, assigned |-> r.assignedOrders,
             log |-> <<>>],
            getPendingOrders(orders, orderObj))

\* DroneController.optimizeOrderDistribution(orders) on the pending orders.
OptimizeOrderDistribution ==
    Let(getPendingOrders(orders, orderObj), LAMBDA given :
        IF given = <<>> \/ getAvailableDrones(drones) = <<>>
        THEN EngineCall("optimizeOrderDistribution", EmptyResult(World), given)
        ELSE Let(optimizeOrderDistribution(World, given, clock), LAMBDA r :
                 EngineCall("optimizeOrderDistribution",
                     [w |-> r.w, success |-> r.assignedOrders > 0,
                      assigned |-> r.assignedOrders, log |-> r.log], given)))

(* ---- The HTTP API: the arrays of drones.js and pedidos.js ---- *)

\* The maxDistance values sent to POST /otimizar; 15 is the default.
MaxDistances == {2, 4, 15}

\* The status values sent to POST /api/v1/drones.
ApiDroneStatuses == {"idle", "flying"}

\* The state after the modules are loaded: no drones and no orders.  In the
\* REST store weights, loads and capacities are counted in tenths of a kg
\* (the orders of /system/seed weigh 2.5, 1.2, 3.8 kg).
ApiInit ==
    /\ clock = 0
    /\ orderObj = <<>>
    /\ orders = <<>>
    /\ deliveredOrders = <<>>
    /\ orderIdCounter = 1
    /\ drones = <<>>
    /\ droneIdCounter = 1
    /\ simStart = NoStart
    /\ timers = <<>>
    /\ isSimulationRunning = FALSE
    /\ simulationInterval = FALSE
    /\ lastCall = NoCall
    /\ CarryOff
    /\ TwoOptOff
    /\ ClusterOff
    /\ RouteOff
    /\ ServerOff

ApiFrame ==
    /\ UNCHANGED <<clock, deliveredOrders, timers, isSimulationRunning,
                   simulationInterval>>
    /\ UNCHANGED <<ccVars, toVars, clVars, rtVars, rlVars, simVars>>

\* POST /api/v1/drones with a valid body.
ApiCreateDrone ==
    \E status \in ApiDroneStatuses :
        /\ Len(drones) < NumDrones
        /\ drones' = Append(drones,
               [NewDrone(droneIdCounter, DroneCapacity * 10, DroneRange)
                    EXCEPT !.status = status])
        /\ droneIdCounter' = droneIdCounter + 1
        /\ lastCall' = NoCall
        /\ UNCHANGED <<orderObj, orders, orderIdCounter>>
        /\ ApiFrame

\* POST /api/v1/pedidos with a valid body, one of the forms of OrderData.
apiCreateOrder(data, limit) ==
    \E orderData \in data :
        /\ Len(orderObj) < limit
        /\ orderObj' = Append(orderObj,
               NewOrder(orderIdCounter, orderData.location,
                        orderData.weight * 10, orderData.priority, clock))
        /\ orders' = Append(orders, Len(orderObj) + 1)
        /\ orderIdCounter' = orderIdCounter + 1
        /\ lastCall' = NoCall
        /\ UNCHANGED <<drones, droneIdCounter>>
        /\ ApiFrame

apiTooFar_Never(location, maxDistance) == FALSE

\* distance = calculateDistance({ x: 10, y: 10 }, order.location);
\* if (distance > maxDistance) continue;  Both sides are squared, so that
\* locations at an irrational distance (those of /system/seed) are compared
\* exactly.
apiTooFar(location, maxDistance) ==
    (location.x - BaseX) * (location.x - BaseX)
        + (location.y - BaseY) * (location.y - BaseY) > maxDistance * maxDistance

ApiCreateOrder == apiCreateOrder(OrderData, MaxOrders)

\* The inner loop of applyOptimizationStrategy of the API: the idle drone
\* with the best score (capacity - currentLoad) / (distance + 1) among those
\* that have room for the order, 0 for null.  The order, and so distance + 1,
\* is the same for every drone of the loop: the scores are compared by their
\* numerators, and the first numerator beats the bestScore -1.
apiBestDrone(w, ds, o, maxDistance) ==
    LET best[i \in 0..Len(ds)] ==
            IF i = 0 THEN NoBest
            ELSE LET prev == best[i - 1]
                     drone == w.drones[ds[i]]
                     currentLoad == SumOver(drone.assignedOrders,
                                            LAMBDA a : w.obj[a].weight)
                 IN  IF \/ drone.status # "idle"
                        \/ apiTooFar(w.obj[o].location, maxDistance)
                        \/ currentLoad + w.obj[o].weight > drone.capacity
                     THEN prev
                     ELSE IF RatGreater(drone.capacity - currentLoad, 1,
                                        prev.num, prev.den)
                          THEN [drone |-> ds[i],
                                num |-> drone.capacity - currentLoad,
                                den |-> 1]
                          ELSE prev
    IN  best[Len(ds)].drone

\* applyOptimizationStrategy(orders, drones, strategy, maxDistance) of the
\* API; the strategy is only copied into the result.
apiApplyOptimizationStrategy(w, os, ds, maxDistance) ==
    LET sortedOrders == StableSort(os,
            LAMBDA a, b : priorityScore(w.obj[a].priority)
                            > priorityScore(w.obj[b].priority))
        pass[i \in 0..Len(sortedOrders)] ==
            IF i = 0 THEN [w |-> w, assignedOrdersCount |-> 0]
            ELSE LET prev == pass[i - 1]
                     o == sortedOrders[i]
                     bestDrone == apiBestDrone(prev.w, ds, o, maxDistance)
                 IN  IF bestDrone = 0 THEN prev
                     ELSE [w |-> [drones |-> [prev.w.drones EXCEPT
                                     ![bestDrone].assignedOrders = Append(@, o)],
                                  obj |-> [prev.w.obj EXCEPT
                                     ![o].status = "assigned",
                                     ![o].assignedDrone =
                                         prev.w.drones[bestDrone].id]],
                           assignedOrdersCount |-> prev.assignedOrdersCount + 1]
    IN  pass[Len(sortedOrders)]

\* POST /api/v1/entregas/otimizar with a valid body: 400 and success false
\* with no idle drone, 200 and success true with no pending order, else the
\* result of applyOptimizationStrategy with success true.
apiOptimize(maxDistances) ==
    \E maxDistance \in maxDistances :
        LET availableDrones == idleDrones(drones)
            pendingOrders == getPendingOrders(orders, orderObj)
            r == apiApplyOptimizationStrategy(World, pendingOrders,
                                              availableDrones, maxDistance)
        IN  /\ IF availableDrones = <<>>
               THEN /\ lastCall' = [Call("POST /otimizar", FALSE, 0, <<>>, pendingOrders)
                                        EXCEPT !.maxDistance = maxDistance]
                    /\ UNCHANGED <<drones, orderObj>>
               ELSE IF pendingOrders = <<>>
               THEN /\ lastCall' = [Call("POST /otimizar", TRUE, 0, <<>>, pendingOrders)
                                        EXCEPT !.maxDistance = maxDistance]
                    /\ UNCHANGED <<drones, orderObj>>
               ELSE /\ lastCall' = [Call("POST /otimizar", TRUE, r.assignedOrdersCount,
                                         <<>>, pendingOrders)
                                        EXCEPT !.maxDistance = maxDistance]
                    /\ drones' = r.w.drones
                    /\ orderObj' = r.w.obj
            /\ UNCHANGED <<orders, orderIdCounter, droneIdCounter>>
            /\ ApiFrame

ApiOptimize == apiOptimize(MaxDistances)

(* ---- The REST store: the other requests ---- *)

\* The order form of the requests to the whole store, and maxDistance left
\* to its default.
StoreOrderData == {[location |-> Pt(13, 10), weight |-> 3, priority |-> "alta"]}

DefaultMaxDistance == 15

StoreCreateOrder == apiCreateOrder(StoreOrderData, StoreOrders)

StoreOptimize == apiOptimize({DefaultMaxDistance})

\* The ids ORDER-n and DRONE-n a request can name; the last one is unknown.
OrderIds == 1..(StoreOrders + 1)
DroneIds == 1..(NumDrones + 1)

\* const sampleOrders of /system/seed, weights in tenths of a kg.
SampleOrders ==
    <<[x |-> 5, y |-> 5, weight |-> 25, priority |-> "alta"],
      [x |-> 15, y |-> 8, weight |-> 12, priority |-> "media"],
      [x |-> 3, y |-> 12, weight |-> 38, priority |-> "baixa"],
      [x |-> 18, y |-> 6, weight |-> 15, priority |-> "alta"],
      [x |-> 12, y |-> 15, weight |-> 42, priority |-> "media"],
      [x |-> 7, y |-> 18, weight |-> 8, priority |-> "baixa"],
      [x |-> 16, y |-> 3, weight |-> 21, priority |-> "alta"],
      [x |-> 4, y |-> 16, weight |-> 35, priority |-> "media"]>>

\* What no request of the REST store touches.
StoreFrame ==
    /\ UNCHANGED <<clock, timers, isSimulationRunning, simulationInterval>>
    /\ UNCHANGED <<ccVars, toVars, clVars, rtVars, rlVars, simVars>>

\* drones.findIndex(d => d.id === req.params.id), 1-based, 0 for -1.
droneIndex(ds, id) ==
    IF \E i \in 1..Len(ds) : ds[i].id = id
    THEN CHOOSE i \in 1..Len(ds) :
            /\ ds[i].id = id
            /\ \A j \in 1..(i - 1) : ds[j].id # id
    ELSE 0

\* The record of a request that names an id and its response.
Response(op, id, status) ==
    [NoCall EXCEPT !.op = op, !.success = status < 400, !.given = <<id>>,
                   !.status = status]

\* POST /api/v1/pedidos/:id/deliver
ApiDeliver ==
    \E id \in OrderIds :
        Let(findIndex(orders, orderObj, id), LAMBDA orderIndex :
            IF orderIndex = 0
            THEN /\ lastCall' = Response("POST /deliver", id, 404)
                 /\ UNCHANGED <<orderObj, orders, deliveredOrders>>
            ELSE IF orderObj[orders[orderIndex]].status # "assigned"
            THEN /\ lastCall' = Response("POST /deliver", id, 400)
                 /\ UNCHANGED <<orderObj, orders, deliveredOrders>>
            ELSE /\ orderObj' = [orderObj EXCEPT
                                    ![orders[orderIndex]].status = "delivered"]
                 /\ deliveredOrders' = Append(deliveredOrders, orders[orderIndex])
                 /\ orders' = RemoveAt(orders, orderIndex)
                 /\ lastCall' = Response("POST /deliver", id, 200))
        /\ UNCHANGED <<drones, orderIdCounter, droneIdCounter>>
        /\ StoreFrame

\* The bodies sent to PUT /api/v1/pedidos/:id: one field of orderUpdateSchema.
OrderUpdates ==
    {[field |-> "status", value |-> v] :
         v \in {"pending", "assigned", "delivered", "cancelled"}}
      \cup {[field |-> "assignedDrone", value |-> d] : d \in 1..NumDrones}

\* { ...orders[orderIndex], ...value }
updatedOrder(order, update) ==
    IF update.field = "status" THEN [order EXCEPT !.status = update.value]
    ELSE [order EXCEPT !.assignedDrone = update.value]

\* PUT /api/v1/pedidos/:id with a valid body: the order in the list is
\* replaced by a new object, and whoever holds the old object keeps it.
ApiUpdateOrder ==
    \E id \in OrderIds, update \in OrderUpdates :
        Let(findIndex(orders, orderObj, id), LAMBDA orderIndex :
            IF orderIndex = 0
            THEN /\ lastCall' = NoCall
                 /\ UNCHANGED <<orderObj, orders>>
            ELSE /\ Len(orderObj) < StoreOrders
                 /\ orderObj' = Append(orderObj,
                        updatedOrder(orderObj[orders[orderIndex]], update))
                 /\ orders' = [orders EXCEPT ![orderIndex] = Len(orderObj) + 1]
                 /\ lastCall' = NoCall)
        /\ UNCHANGED <<deliveredOrders, drones, orderIdCounter, droneIdCounter>>
        /\ StoreFrame

\* DELETE /api/v1/pedidos/:id
ApiDeleteOrder ==
    \E id \in OrderIds :
        Let(findIndex(orders, orderObj, id), LAMBDA orderIndex :
            IF orderIndex = 0
            THEN /\ lastCall' = NoCall
                 /\ UNCHANGED orders
            ELSE IF orderObj[orders[orderIndex]].status = "assigned"
            THEN /\ lastCall' = NoCall
                 /\ UNCHANGED orders
            ELSE /\ orders' = RemoveAt(orders, orderIndex)
                 /\ lastCall' = NoCall)
        /\ UNCHANGED <<orderObj, deliveredOrders, drones, orderIdCounter,
                       droneIdCounter>>
        /\ StoreFrame

\* PUT /api/v1/drones/:id with a status as its body.
ApiUpdateDrone ==
    \E id \in DroneIds, status \in ApiDroneStatuses :
        Let(droneIndex(drones, id), LAMBDA index :
            IF index = 0
            THEN /\ lastCall' = NoCall
                 /\ UNCHANGED drones
            ELSE /\ drones' = [drones EXCEPT ![index].status = status]
                 /\ lastCall' = NoCall)
        /\ UNCHANGED <<orderObj, orders, deliveredOrders, orderIdCounter,
                       droneIdCounter>>
        /\ StoreFrame

\* DELETE /api/v1/drones/:id
ApiDeleteDrone ==
    \E id \in DroneIds :
        Let(droneIndex(drones, id), LAMBDA index :
            IF index = 0
            THEN /\ lastCall' = NoCall
                 /\ UNCHANGED drones
            ELSE IF drones[index].status # "idle"
            THEN /\ lastCall' = NoCall
                 /\ UNCHANGED drones
            ELSE /\ drones' = RemoveAt(drones, index)
                 /\ lastCall' = NoCall)
        /\ UNCHANGED <<orderObj, orders, deliveredOrders, orderIdCounter,
                       droneIdCounter>>
        /\ StoreFrame

\* POST /api/v1/drones/batch with a valid body.
ApiCreateDrones ==
    \E count \in 1..NumDrones :
        /\ Len(drones) + count <= NumDrones
        /\ drones' = drones \o
               [i \in 1..count |->
                   NewDrone(droneIdCounter + i - 1, DroneCapacity * 10, DroneRange)]
        /\ droneIdCounter' = droneIdCounter + count
        /\ lastCall' = NoCall
        /\ UNCHANGED <<orderObj, orders, deliveredOrders, orderIdCounter>>
        /\ StoreFrame

\* POST /api/v1/system/reset: resetDrones() and resetOrders().  The objects
\* of the orders are no longer reachable.
ApiReset ==
    /\ drones' = <<>>
    /\ droneIdCounter' = 1
    /\ orders' = <<>>
    /\ deliveredOrders' = <<>>
    /\ orderIdCounter' = 1
    /\ orderObj' = <<>>
    /\ lastCall' = NoCall
    /\ StoreFrame

\* POST /api/v1/system/seed with a valid body: a reset, then DRONE-1.. and
\* ORDER-1.. are pushed into the lists; the two counters stay at 1.
ApiSeed ==
    \E seedDrones \in 1..NumDrones, seedOrders \in 1..StoreOrders :
        /\ drones' = [i \in 1..seedDrones |->
                         NewDrone(i, DroneCapacity * 10, DroneRange)]
        /\ droneIdCounter' = 1
        /\ orderObj' = [i \in 1..Min(seedOrders, Len(SampleOrders)) |->
                           NewOrder(i, Pt(SampleOrders[i].x, SampleOrders[i].y),
                                    SampleOrders[i].weight,
                                    SampleOrders[i].priority, clock)]
        /\ orders' = [i \in 1..Min(seedOrders, Len(SampleOrders)) |-> i]
        /\ deliveredOrders' = <<>>
        /\ orderIdCounter' = 1
        /\ lastCall' = NoCall
        /\ StoreFrame

(* ---- Trips of one drone ---- *)

\* The order forms of the trips: one order, three times.
TripOrderData == {[location |-> Pt(13, 10), weight |-> 3, priority |-> "alta"]}

TripsAddOrder == addOrder(TripOrderData, MaxOrders)

WebOff ==
    /\ clock = 0
    /\ orderObj = <<>>
    /\ orders = <<>>
    /\ deliveredOrders = <<>>
    /\ orderIdCounter = 0
    /\ drones = <<>>
    /\ timers = <<>>
    /\ isSimulationRunning = FALSE
    /\ simulationInterval = FALSE
    /\ lastCall = [op |-> "off"]
    /\ droneIdCounter = 0
    /\ simStart = NoStart

(* ---- clusterOrdersByDistance on drawn inputs ---- *)

MaxClusterOrders == 4
MaxClusters == 3

\* Locations whose coordinates are multiples of 3: the mean of up to four of
\* them is a double without rounding, so that two distances are equal in the
\* code exactly when they are equal here.  (9, 12) is as far from (6, 9) as
\* from (12, 9).
ClusterPoints == {Pt(6, 9), Pt(12, 9), Pt(9, 12)}

RECURSIVE ClusterInputs(_)
ClusterInputs(n) ==
    IF n = 0 THEN {<<>>}
    ELSE LET shorter == ClusterInputs(n - 1)
         IN  shorter \cup {Append(os, [location |-> q]) :
                               os \in {t \in shorter : Len(t) = n - 1},
                               q \in ClusterPoints}

ClusterInit ==
    /\ clOrders \in ClusterInputs(MaxClusterOrders)
    /\ clK \in 1..MaxClusters
    /\ clCentroids = <<>>
    /\ clResult = <<>>
    /\ clFirst = <<>>
    /\ clCall = 0

\* The values Math.random() can give the k draws of one call; no draw is made
\* when orders.length <= k.
ClusterPicks ==
    IF Len(clOrders) <= clK THEN {NoPicks}
    ELSE [1..clK -> 1..Len(clOrders)]

\* One call of clusterOrdersByDistance(orders, k) on the input.
ClusterRun ==
    \E picks \in ClusterPicks :
        Let(clusterRun(clOrders, [i \in 1..Len(clOrders) |-> i], clK, picks),
            LAMBDA r :
                /\ clResult' = r.clusters
                /\ clCentroids' = r.centroids)
        /\ clFirst' = clResult
        /\ clCall' = clCall + 1
        /\ UNCHANGED <<clOrders, clK>>
        /\ UNCHANGED <<ccVars, toVars, webVars, rtVars, rlVars, apiVars, simVars>>

\* The first call.
ClusterCall == clCall = 0 /\ ClusterRun

\* The call is made again on the same orders and the same k.
ClusterAgain == clCall = 1 /\ ClusterRun

(* ---- The route builders on drawn inputs ---- *)
MaxRouteOrders == 3

\* The inner for loop of calculateOptimizedRoute from index i on (1-based): a
\* candidate wins when it is strictly nearer.
RECURSIVE apiNearest(_, _, _, _, _, _)
apiNearest(obj, unvisited, cur, i, nearestIndex, nearestDistance) ==
    IF i > Len(unvisited) THEN nearestIndex
    ELSE LET distance == calculateDistance(cur, obj[unvisited[i]].location)
         IN  IF distance < nearestDistance
             THEN apiNearest(obj, unvisited, cur, i + 1, i, distance)
             ELSE apiNearest(obj, unvisited, cur, i + 1, nearestIndex,
                             nearestDistance)

\* The while loop of calculateOptimizedRoute: the orders in visiting order.
RECURSIVE apiVisit(_, _, _)
apiVisit(obj, unvisited, cur) ==
    IF unvisited = <<>> THEN <<>>
    ELSE LET k == apiNearest(obj, unvisited, cur, 2, 1,
                      calculateDistance(cur, obj[unvisited[1]].location))
         IN  <<unvisited[k]>>
               \o apiVisit(obj, RemoveAt(unvisited, k), obj[unvisited[k]].location)

\* totalDistance += nearestDistance, over the stops.
RECURSIVE apiLegs(_, _, _)
apiLegs(obj, visit, cur) ==
    IF visit = <<>> THEN 0
    ELSE calculateDistance(cur, obj[visit[1]].location)
           + apiLegs(obj, Tail(visit), obj[visit[1]].location)

apiReturnLeg_None(currentPosition) == 0

\* returnDistance = calculateDistance(currentPosition, basePosition)
apiReturnLeg(currentPosition) == calculateDistance(currentPosition, basePosition)

\* calculateOptimizedRoute(drone, orders) of the REST API.  visit is the
\* sequence of nearestOrder, which the code does not return.
calculateOptimizedRoute(obj, os) ==
    IF os = <<>>
    THEN [path |-> <<basePosition>>, distance |-> 0, estimatedTime |-> 0,
          visit |-> <<>>]
    ELSE Let(apiVisit(obj, os, basePosition), LAMBDA visit :
             Let(apiLegs(obj, visit, basePosition)
                   + apiReturnLeg(obj[visit[Len(visit)]].location),
                 LAMBDA totalDistance :
                     [path |-> <<basePosition>>
                                 \o [k \in 1..Len(visit) |-> obj[visit[k]].location]
                                 \o <<basePosition>>,
                      distance |-> totalDistance,
                      estimatedTime |-> totalDistance * 120,
                      visit |-> visit]))

\* The orders a route is built for lie on the rhombus around the base.
RECURSIVE RouteInputs(_)
RouteInputs(n) ==
    IF n = 0 THEN {}
    ELSE LET shorter == RouteInputs(n - 1)
             one == {<<[location |-> l, priority |-> p]>> :
                        l \in RhombusPoints, p \in Priorities}
         IN  one \cup shorter
                 \cup {s \o t : s \in {u \in shorter : Len(u) = n - 1}, t \in one}

RouteInit ==
    /\ rtOrders \in RouteInputs(MaxRouteOrders)
    /\ rtRoute = <<>>
    /\ rtDistance = 0
    /\ rtApi = [path |-> <<>>, distance |-> 0, estimatedTime |-> 0, visit |-> <<>>]
    /\ rtDone = {}

\* A drone that holds the orders builds its route: optimizeRoute() and
\* calculateRouteDistance(), as startDelivery() calls them.
RouteDrone ==
    /\ "drone" \notin rtDone
    /\ Let(optimizeRoute([NewDrone(1, DroneCapacity, DroneRange) EXCEPT
                             !.assignedOrders = [i \in 1..Len(rtOrders) |-> i]],
                         rtOrders),
           LAMBDA drone :
               /\ rtRoute' = drone.currentRoute
               /\ rtDistance' = calculateRouteDistance(drone.currentRoute))
    /\ rtDone' = rtDone \cup {"drone"}
    /\ UNCHANGED <<rtOrders, rtApi>>
    /\ UNCHANGED <<ccVars, toVars, webVars, clVars, rlVars, apiVars, simVars>>

\* The REST API builds the route of the same orders.
RouteApi ==
    /\ "api" \notin rtDone
    /\ rtApi' = calculateOptimizedRoute(rtOrders, [i \in 1..Len(rtOrders) |-> i])
    /\ rtDone' = rtDone \cup {"api"}
    /\ UNCHANGED <<rtOrders, rtRoute, rtDistance>>
    /\ UNCHANGED <<ccVars, toVars, webVars, clVars, rlVars, apiVars, simVars>>

(* ---- The HTTP server and the rate limiter ---- *)

\* rateLimiter(windowMs = 60000, maxRequests = 100), scaled down: a window
\* of WindowMs ms and MaxRequests requests in it.
WindowMs == 3
MaxRequests == 2

\* Date.now() runs up to MaxNow, and MaxSent requests are sent in all.
MaxNow == 4
MaxSent == 4

\* req.ip of the clients.
ClientIps == {"10.0.0.1", "10.0.0.2"}

ServerInit ==
    /\ rlNow = 0
    /\ rlRequests = <<>>
    /\ rlPassed = [c \in ClientIps |-> <<>>]
    /\ rlServed = [c \in ClientIps |-> <<>>]
    /\ rlStatus = 0

\* The requests sent so far that were not answered 429.
SentSoFar ==
    LET lens == [c \in ClientIps |-> Len(rlPassed[c]) + Len(rlServed[c])]
        RECURSIVE Sum(_)
        Sum(cs) == IF cs = {} THEN 0
                   ELSE LET c == CHOOSE x \in cs : TRUE
                        IN  lens[c] + Sum(cs \ {c})
    IN  Sum(ClientIps)

\* Date.now() moves on.
ServerTick ==
    /\ rlNow >= 0
    /\ rlNow < MaxNow
    /\ rlNow' = rlNow + 1
    /\ UNCHANGED <<rlRequests, rlPassed, rlServed, rlStatus>>
    /\ UNCHANGED <<ccVars, toVars, webVars, clVars, rtVars, apiVars, simVars>>

\* clientRequests.filter(time => time > windowStart)
validRequests(clientRequests, windowStart) ==
    Filter(clientRequests, LAMBDA time : time > windowStart)

\* The middleware rateLimiter() returns, called for a request of clientId at
\* now: the Map afterwards and whether next() was called (else 429).
rateLimiter(requests, clientId, now) ==
    IF clientId \in DOMAIN requests
    THEN Let(validRequests(requests[clientId], now - WindowMs), LAMBDA valid :
             IF Len(valid) >= MaxRequests
             THEN [requests |-> requests, next |-> FALSE]
             ELSE [requests |-> [requests EXCEPT ![clientId] = Append(valid, now)],
                   next |-> TRUE])
    ELSE [requests |-> (clientId :> <<now>>) @@ requests, next |-> TRUE]

\* A request of client c to an application that mounts rateLimiter().
LimiterRequest ==
    \E c \in ClientIps :
        /\ rlNow >= 0
        /\ SentSoFar < MaxSent
        /\ Let(rateLimiter(rlRequests, c, rlNow), LAMBDA r :
               /\ rlRequests' = r.requests
               /\ rlPassed' = IF r.next
                              THEN [rlPassed EXCEPT ![c] = Append(@, rlNow)]
                              ELSE rlPassed
               /\ rlStatus' = IF r.next THEN 200 ELSE 429)
        /\ UNCHANGED <<rlNow, rlServed>>
        /\ UNCHANGED <<ccVars, toVars, webVars, clVars, rtVars, apiVars, simVars>>

\* A request of client c to /api/v1/... of server.js: helmet, cors,
\* compression, morgan, the body parsers and express.static call next(), and
\* the router answers.  server.js mounts no rateLimiter.
ServerRequest ==
    \E c \in ClientIps :
        /\ rlNow >= 0
        /\ SentSoFar < MaxSent
        /\ rlServed' = [rlServed EXCEPT ![c] = Append(@, rlNow)]
        /\ rlStatus' = 200
        /\ UNCHANGED <<rlNow, rlRequests, rlPassed>>
        /\ UNCHANGED <<ccVars, toVars, webVars, clVars, rtVars, apiVars, simVars>>

(***************************************************************************)
(* Specifications                                                          *)
(***************************************************************************)
CarryNext == EvalCanCarry

\* Only canCarryOrder is called: the other parts of the program are off.
CarryStart ==
    CarryInit /\ TwoOptOff /\ WebOff /\ ClusterOff /\ RouteOff /\ ServerOff

SpecCarry == CarryStart /\ [][CarryNext]_vars

Next ==
    \/ AddOrder
    \/ RemoveOrder
    \/ MarkAsDelivered
    \/ OptimizeDeliveries
    \/ StartSimulation
    \/ StopSimulation
    \/ UpdateSimulationProgress
    \/ StopAllOperations
    \/ ResetSystem
    \/ FireLoad
    \/ FireMove
    \/ FireFly
    \/ FireStep
    \/ FireIdle
    \/ FireStop

Spec == Init /\ [][Next]_vars

EngineNext ==
    \/ EngineAddOrder
    \/ Tick
    \/ StartSimulation
    \/ PriorityFirst
    \/ CapacityOptimization
    \/ DistanceOptimization
    \/ BalancedOptimization
    \/ AlgorithmOptimizeDeliveries
    \/ AdvancedOptimization
    \/ OptimizeOrderDistribution

SpecEngine == Init /\ [][EngineNext]_vars

TripsNext ==
    \/ TripsAddOrder
    \/ RemoveOrder
    \/ OptimizeDeliveries
    \/ StartSimulation
    \/ UpdateSimulationProgress
    \/ FireLoad
    \/ FireMove
    \/ FireFly
    \/ FireStep
    \/ FireIdle

\* One drone and its trips, one after another.
TripsInit == InitFleet(1)

SpecTrips == TripsInit /\ [][TripsNext]_vars

ApiNext ==
    \/ ApiCreateDrone
    \/ ApiCreateOrder
    \/ ApiOptimize

SpecApi == ApiInit /\ [][ApiNext]_vars

\* Every request that changes the REST store.
StoreNext ==
    \/ ApiCreateDrone
    \/ ApiCreateDrones
    \/ ApiUpdateDrone
    \/ ApiDeleteDrone
    \/ StoreCreateOrder
    \/ ApiUpdateOrder
    \/ ApiDeleteOrder
    \/ ApiDeliver
    \/ StoreOptimize
    \/ ApiReset
    \/ ApiSeed

SpecStore == ApiInit /\ [][StoreNext]_vars

TwoOptNext ==
    \/ TwoOptShort
    \/ TwoOptEnter
    \/ TwoOptPass
    \/ TwoOptReturn
    \/ TwoOptAgain

\* Only optimizeRouteWith2Opt is called: the other parts are off.
TwoOptStart ==
    TwoOptInit /\ CarryOff /\ WebOff /\ ClusterOff /\ RouteOff /\ ServerOff

SpecTwoOpt == TwoOptStart /\ [][TwoOptNext]_vars

\* The call runs on: JavaScript executes the statements of the function one
\* after another without interruption.
SpecTwoOptFair == SpecTwoOpt /\ WF_vars(TwoOptNext)

ClusterNext ==
    \/ ClusterCall
    \/ ClusterAgain

\* Only clusterOrdersByDistance is called: the other parts are off.
ClusterStart ==
    ClusterInit /\ CarryOff /\ TwoOptOff /\ WebOff /\ RouteOff /\ ServerOff

SpecCluster == ClusterStart /\ [][ClusterNext]_vars

RouteNext ==
    \/ RouteDrone
    \/ RouteApi

\* Only the route builders are called: the other parts are off.
RouteStart ==
    RouteInit /\ CarryOff /\ TwoOptOff /\ WebOff /\ ClusterOff /\ ServerOff

SpecRoute == RouteStart /\ [][RouteNext]_vars

ServerNext ==
    \/ ServerTick
    \/ LimiterRequest
    \/ ServerRequest

\* Only the server takes requests: the other parts are off.
ServerStart ==
    ServerInit /\ CarryOff /\ TwoOptOff /\ WebOff /\ ClusterOff /\ RouteOff

SpecServer == ServerStart /\ [][ServerNext]_vars

(***************************************************************************)
(* Claims                                                                  *)
(***************************************************************************)

\* C9: canCarryOrder returns true exactly when currentLoad + weight <=
\* capacity, d = distance(position, location) + distance(location, base) <=
\* range and battery >= min(100, 5 * d); the call changes neither the drone
\* nor the order.
C9_CanCarryExact ==
    ccPc = "done" =>
        LET dr == ccBefore.drone
            o == ccBefore.order
            d == Abs(o.location.x - dr.position.x) + Abs(BaseX - o.location.x)
            need == IF 5 * d > 100 THEN 100 ELSE 5 * d
        IN  /\ ccResult = (/\ dr.currentLoad + o.weight <= dr.capacity
                            /\ d <= dr.range
                            /\ dr.battery >= need)
            /\ ccDrone = dr
            /\ ccOrder = o

\* C9 witness: a call answered true on a trip long enough for the cap at
\* 100 to decide (5 * d > 100), and a call answered false.
C9_Witness ==
    /\ ccPc = "done"
    /\ ccResult
    /\ Abs(ccOrder.location.x - ccDrone.position.x)
         + Abs(BaseX - ccOrder.location.x) > 20
    /\ ccDrone.currentLoad + ccOrder.weight = ccDrone.capacity

\* C10: the path returned by optimizeRouteWith2Opt is never longer than the
\* path it was given.
C10_TwoOptNonWorsening ==
    toPc = "done" =>
        calculateRouteDistance(toResult) <= calculateRouteDistance(toInput)

\* C10 witness: a call that returned a strictly shorter path.
C10_Witness ==
    /\ toPc = "done"
    /\ Len(toInput) >= 4
    /\ calculateRouteDistance(toResult) < calculateRouteDistance(toInput)

(* ---- The orders and the drones that hold them ---- *)

\* How often drone d holds order object o among its assigned orders.
Holds(ds, d, o) ==
    Cardinality({k \in 1..Len(ds[d].assignedOrders) : ds[d].assignedOrders[k] = o})

\* The drone with the id holds the order exactly once.
HeldOnceBy(ds, droneId, o) ==
    /\ getDroneById(ds, droneId) # 0
    /\ Holds(ds, getDroneById(ds, droneId), o) = 1

\* C4: in every state of the store, an order of the order list has status
\* assigned if and only if its assignedDrone is set and the drone with that id
\* holds the order exactly once among its assigned orders.
C4_AssignedIffHeld ==
    \A i \in 1..Len(orders) :
        LET order == orderObj[orders[i]]
        IN  (order.status = "assigned")
              <=> (/\ order.assignedDrone # 0
                   /\ HeldOnceBy(drones, order.assignedDrone, orders[i]))

\* C5: in every step, the status of an order stays as it is, or moves from
\* pending to assigned, or from assigned to delivered.
C5_StatusMonotonic ==
    [][\A o \in 1..Len(orderObj) :
          \/ orderObj'[o].status = orderObj[o].status
          \/ orderObj[o].status = "pending" /\ orderObj'[o].status = "assigned"
          \/ orderObj[o].status = "assigned" /\ orderObj'[o].status = "delivered"]_vars

(* ---- Assignment passes ---- *)

\* C2: after an optimize call, the route of every drone that holds an order
\* (the base, its stops in the order optimizeRoute builds, the base) is no
\* longer than the range of the drone.
C2_RouteWithinRange ==
    lastCall.op # "none" =>
        \A d \in 1..Len(drones) :
            drones[d].assignedOrders # <<>> =>
                calculateRouteDistance(optimizeRoute(drones[d], orderObj).currentRoute)
                    <= drones[d].range

\* The passes that decide the orders by priority.
PriorityPasses == {"priority_first", "optimizeOrderDistribution"}

\* C6: a pass by priority commits the orders in the order (priority
\* descending, waiting time descending), and when it commits an order to a
\* drone, no order of a higher priority that is still pending can be carried
\* by that drone at that point.
C6_PriorityOrdering ==
    lastCall.op \in PriorityPasses =>
        /\ \A k \in 1..Len(lastCall.log) :
               LET dec == lastCall.log[k]
               IN  \A h \in Range(dec.given) :
                       (/\ priorityScore(dec.w.obj[h].priority)
                             > priorityScore(dec.w.obj[dec.order].priority)
                        /\ dec.w.obj[h].status = "pending")
                           => ~canCarryOrder(dec.w.drones[dec.drone], dec.w.obj[h])
        /\ \A k, l \in 1..Len(lastCall.log) :
               k < l =>
                   LET a == orderObj[lastCall.log[k].order]
                       b == orderObj[lastCall.log[l].order]
                   IN  \/ priorityScore(a.priority) > priorityScore(b.priority)
                       \/ /\ priorityScore(a.priority) = priorityScore(b.priority)
                          /\ getWaitingTime(a, clock) >= getWaitingTime(b, clock)

\* C6 witness: priority_first committed an order while an order of a higher
\* priority was pending, and committed two orders of one priority that had
\* waited differently long.
C6_Witness ==
    /\ lastCall.op = "priority_first"
    /\ \E k \in 1..Len(lastCall.log) :
           LET dec == lastCall.log[k]
           IN  \E h \in Range(dec.given) :
                   /\ priorityScore(dec.w.obj[h].priority)
                        > priorityScore(dec.w.obj[dec.order].priority)
                   /\ dec.w.obj[h].status = "pending"
    /\ \E k, l \in 1..Len(lastCall.log) :
           /\ k < l
           /\ priorityScore(orderObj[lastCall.log[k].order].priority)
                > priorityScore(orderObj[lastCall.log[l].order].priority)

\* No idle drone of the world w can carry order o.
NoFeasibleVehicle(w, o) ==
    \A d \in Range(idleDrones(w.drones)) :
        ~canCarryOrderCall(w.drones[d], w.obj[o]).ret

\* The orders drone d holds now and did not hold in the world w.
NewlyHeld(w, d) ==
    Filter(drones[d].assignedOrders,
           LAMBDA o : o \notin Range(w.drones[d].assignedOrders))

\* C8: a pending order that no idle drone can carry when optimize is called
\* is the same object afterwards, pending with no drone; no drone holds it,
\* and the load of every drone has grown by the weights of the orders the
\* drone has taken, and by nothing else.
C8_InfeasibleUntouched ==
    lastCall.op # "none" =>
        \A o \in Range(lastCall.given) :
            NoFeasibleVehicle(lastCall.before, o) =>
                /\ orderObj[o] = lastCall.before.obj[o]
                /\ orderObj[o].status = "pending"
                /\ orderObj[o].assignedDrone = 0
                /\ \A d \in 1..Len(drones) :
                       /\ Holds(drones, d, o) = 0
                       /\ drones[d].currentLoad =
                            lastCall.before.drones[d].currentLoad
                              + SumOver(NewlyHeld(lastCall.before, d),
                                        LAMBDA n : orderObj[n].weight)

\* C8 witness: a call that was given an order heavier than the capacity of
\* every drone, and an order out of range, and that assigned another order.
C8_Witness ==
    /\ lastCall.op # "none"
    /\ lastCall.assigned > 0
    /\ \E o \in Range(lastCall.given) :
           /\ NoFeasibleVehicle(lastCall.before, o)
           /\ \A d \in 1..Len(drones) : orderObj[o].weight > drones[d].capacity
    /\ \E o \in Range(lastCall.given) :
           /\ NoFeasibleVehicle(lastCall.before, o)
           /\ \A d \in 1..Len(drones) : orderObj[o].weight <= drones[d].capacity

\* The weights of the orders drone d holds add up to its capacity at most.
WithinCapacity(d) ==
    SumOver(drones[d].assignedOrders, LAMBDA o : orderObj[o].weight)
        <= drones[d].capacity

AllWithinCapacity == \A d \in 1..Len(drones) : WithinCapacity(d)

\* C1: after an optimize call, the weights of the orders in the
\* assignedOrders of every drone add up to no more than its capacity.
C1_LoadWithinCapacity == [][OptimizeDeliveries => AllWithinCapacity']_vars

\* Every order of the list with status assigned is held once, by one drone.
AssignedHeldOnce ==
    \A i \in 1..Len(orders) :
        orderObj[orders[i]].status = "assigned" =>
            /\ Cardinality({d \in 1..Len(drones) :
                               Holds(drones, d, orders[i]) > 0}) = 1
            /\ \A d \in 1..Len(drones) : Holds(drones, d, orders[i]) <= 1

\* C3: after an optimize call, every order with status assigned is among the
\* assignedOrders of exactly one drone, once.
C3_NoDoubleAssignment == [][OptimizeDeliveries => AssignedHeldOnce']_vars

\* C7: an optimize call with no pending order or with no idle drone answers
\* success = false with zero assignments and changes no order and no drone.
C7_EmptyInput ==
    (/\ lastCall.op # "none"
     /\ \/ lastCall.given = <<>>
        \/ idleDrones(lastCall.before.drones) = <<>>)
        => /\ ~lastCall.success
           /\ lastCall.assigned = 0
           /\ World = lastCall.before

(* ---- 2-opt, called twice ---- *)

\* The interior segments (start, end) of a path, by the 0-based indices of the
\* code: the first and the last point stay where they are.
InteriorSegments(route) ==
    {seg \in (1..(Len(route) - 2)) \X (1..(Len(route) - 2)) : seg[1] < seg[2]}

\* C11: optimizeRouteWith2Opt called on the path it has returned returns the
\* same path, point for point; and the path returned is a local optimum: no
\* reversal of one interior segment of it is strictly shorter.
C11_TwoOptIdempotent ==
    toPc = "done" =>
        /\ toCall = 2 => toResult = toFirst
        /\ \A seg \in InteriorSegments(toResult) :
               calculateRouteDistance(
                   reverseRouteSegment(toResult, seg[1], seg[2]))
                 >= calculateRouteDistance(toResult)

\* C11 witness: the second call has returned, on a path of five points that
\* the first call had made strictly shorter in more than one pass.
C11_Witness ==
    /\ toPc = "done"
    /\ toCall = 2
    /\ Len(toInput) = MaxPathLen
    /\ toFirst # toInput
    /\ calculateRouteDistance(toFirst) < calculateRouteDistance(toInput)
    /\ \A seg \in InteriorSegments(toInput) :
           reverseRouteSegment(toInput, seg[1], seg[2]) # toFirst

(* ---- Clusters ---- *)

\* How often order i is in the clusters cs.
TimesClustered(cs, i) ==
    Cardinality({at \in {c \in 1..Len(cs) : TRUE} \X (1..MaxClusterOrders + 1) :
                    /\ at[2] <= Len(cs[at[1]])
                    /\ cs[at[1]][at[2]] = i})

\* The cluster of cs that holds order i.
ClusterOf(cs, i) == CHOOSE c \in 1..Len(cs) : i \in Range(cs[c])

\* The square of the distance from a location to the centroid c, as the
\* fraction num / den.
CentroidDistance2(location, c) ==
    [num |-> (location.x * c.n - c.x) * (location.x * c.n - c.x)
               + (location.y * c.n - c.y) * (location.y * c.n - c.y),
     den |-> c.n * c.n]

\* Centroid a is no farther from the location than centroid b.
NoFarther(location, a, b) ==
    LET da == CentroidDistance2(location, a)
        db == CentroidDistance2(location, b)
    IN  da.num * db.den <= db.num * da.den

\* The nearest of the centroids to the location, the lowest index among
\* those equally near.
NearestFinal(location, centroids) ==
    CHOOSE i \in 1..Len(centroids) :
        /\ \A j \in 1..Len(centroids) :
               NoFarther(location, centroids[i], centroids[j])
        /\ \A j \in 1..(i - 1) :
               ~NoFarther(location, centroids[j], centroids[i])

\* C12: with more orders than clusters asked for, clusterOrdersByDistance
\* returns exactly k clusters, none of them empty.
C12_ExactlyKClusters ==
    (clCall >= 1 /\ Len(clOrders) > clK) =>
        /\ Len(clResult) = clK
        /\ \A c \in 1..Len(clResult) : clResult[c] # <<>>

\* C13: the clusters returned are a partition of the orders given: every
\* order is in exactly one cluster, once; no cluster is empty; there are at
\* most k clusters; and with more orders than k, two orders share a cluster
\* exactly when the same final centroid is the nearest to both (the lowest
\* index among equally near ones), the clusters being in centroid order.
C13_ClustersPartition ==
    clCall >= 1 =>
        /\ \A i \in 1..Len(clOrders) : TimesClustered(clResult, i) = 1
        /\ \A c \in 1..Len(clResult) :
               /\ clResult[c] # <<>>
               /\ Range(clResult[c]) \subseteq 1..Len(clOrders)
        /\ Len(clResult) <= clK
        /\ Len(clOrders) > clK =>
               \A i, j \in 1..Len(clOrders) :
                   LET ni == NearestFinal(clOrders[i].location, clCentroids)
                       nj == NearestFinal(clOrders[j].location, clCentroids)
                   IN  /\ (ClusterOf(clResult, i) = ClusterOf(clResult, j))
                             <=> (ni = nj)
                       /\ (ClusterOf(clResult, i) < ClusterOf(clResult, j))
                             <=> (ni < nj)

\* C13 witness: a call with more orders than k that returned several
\* clusters and dropped an empty one, with an order exactly as near to a
\* centroid of a higher index as to its own.
C13_Witness ==
    /\ clCall >= 1
    /\ Len(clOrders) > clK
    /\ Len(clResult) >= 2
    /\ Len(clResult) < clK
    /\ \E i \in 1..Len(clOrders) :
           \E a, b \in 1..Len(clCentroids) :
               /\ a < b
               /\ NearestFinal(clOrders[i].location, clCentroids) = a
               /\ NoFarther(clOrders[i].location, clCentroids[b], clCentroids[a])

\* C14: two calls of clusterOrdersByDistance on the same orders and the same
\* k return the same clusters.
C14_ClusterDeterminism ==
    clCall = 2 => clResult = clFirst

\* The weight the selection rule gives a priority, times 100.
RuleWeight100(p) == IF p = "alta" THEN 70 ELSE IF p = "media" THEN 85 ELSE 100

RuleScore(obj, cur, o) ==
    calculateDistance(cur, obj[o].location) * RuleWeight100(obj[o].priority)

\* The first of the candidates with the least weighted score.
RuleChoice(obj, unvisited, cur) ==
    CHOOSE i \in 1..Len(unvisited) :
        /\ \A j \in 1..Len(unvisited) :
               RuleScore(obj, cur, unvisited[i]) <= RuleScore(obj, cur, unvisited[j])
        /\ \A j \in 1..(i - 1) :
               RuleScore(obj, cur, unvisited[j]) > RuleScore(obj, cur, unvisited[i])

\* Every stop of visit is the choice of the rule among the orders that were
\* unvisited when it was made.
RECURSIVE FollowsRule(_, _, _, _)
FollowsRule(obj, unvisited, cur, visit) ==
    IF visit = <<>> THEN TRUE
    ELSE /\ visit[1] = unvisited[RuleChoice(obj, unvisited, cur)]
         /\ FollowsRule(obj,
                        RemoveAt(unvisited,
                                 CHOOSE i \in 1..Len(unvisited) : unvisited[i] = visit[1]),
                        obj[visit[1]].location, Tail(visit))

\* The orders of the stops of Drone.currentRoute, in visiting order.
DroneVisited == [k \in 1..(Len(rtRoute) - 2) |-> rtRoute[k + 1].order]

\* The candidates of Drone.optimizeRoute in the order it scans them.
DroneCandidates ==
    StableSort([i \in 1..Len(rtOrders) |-> i],
               LAMBDA a, b : priorityScore(rtOrders[a].priority)
                               > priorityScore(rtOrders[b].priority))

\* C15: at every step of route construction the next stop is the unvisited
\* order with the least distance(current, location) * weight(priority),
\* weights alta 0.7, media 0.85, baixa 1.0, the first such order on a tie;
\* for the route of a drone and for the route of the REST API.
C15_WeightedSelection ==
    /\ ("drone" \in rtDone /\ rtOrders # <<>>) =>
           FollowsRule(rtOrders, DroneCandidates, basePosition, DroneVisited)
    /\ ("api" \in rtDone /\ rtOrders # <<>>) =>
           FollowsRule(rtOrders, [i \in 1..Len(rtOrders) |-> i], basePosition,
                       rtApi.visit)

IsDepot(p) == p.x = BaseX /\ p.y = BaseY

\* Every order 1..n is a stop exactly once.
VisitsEachOnce(visit, n) ==
    /\ Len(visit) = n
    /\ \A o \in 1..n : Cardinality({k \in 1..n : visit[k] = o}) = 1

\* The legs of the first n points of a path, added up from the last one.
RECURSIVE LegsUpTo(_, _)
LegsUpTo(path, n) ==
    IF n <= 1 THEN 0
    ELSE LegsUpTo(path, n - 1) + calculateDistance(path[n - 1], path[n])

\* path runs depot, one stop at the location of every order, depot.
DepotToDepot(path, visit) ==
    LET n == Len(rtOrders)
    IN  /\ Len(path) = n + 2
        /\ IsDepot(path[1])
        /\ IsDepot(path[n + 2])
        /\ VisitsEachOnce(visit, n)
        /\ \A k \in 1..n :
               /\ path[k + 1].x = rtOrders[visit[k]].location.x
               /\ path[k + 1].y = rtOrders[visit[k]].location.y

\* C16: for a non-empty order set the built route starts at the depot, ends
\* at the depot and in between holds the location of every order exactly
\* once, so its length is the number of orders + 2; the distance reported
\* for it is the sum of its consecutive legs.  For the route of a drone and
\* for the route of the REST API.
C16_RouteShape ==
    /\ ("drone" \in rtDone /\ rtOrders # <<>>) =>
           /\ DepotToDepot(rtRoute, DroneVisited)
           /\ rtDistance = LegsUpTo(rtRoute, Len(rtRoute))
    /\ ("api" \in rtDone /\ rtOrders # <<>>) =>
           /\ DepotToDepot(rtApi.path, rtApi.visit)
           /\ rtApi.distance = LegsUpTo(rtApi.path, Len(rtApi.path))

\* C16 witness: both builders have built the route of three orders at three
\* places away from the depot, and neither visits them in the order given.
C16_Witness ==
    /\ rtDone = {"drone", "api"}
    /\ Len(rtOrders) = 3
    /\ \A i \in 1..3 : ~IsDepot(rtOrders[i].location)
    /\ \A i, j \in 1..3 : i # j => rtOrders[i].location # rtOrders[j].location
    /\ DroneVisited # <<1, 2, 3>>
    /\ rtApi.visit # <<1, 2, 3>>
    /\ rtDistance > 0
    /\ rtApi.distance > 0

\* C17: optimizeDeliveries runs the strategy its caller names, never one it
\* chooses from the orders: the assignment a call leaves is the assignment
\* that applyOptimizationStrategy makes for the named strategy on the same
\* orders and drones.
C17_NamedStrategyRuns ==
    [][(/\ lastCall' # lastCall
        /\ lastCall'.op = "optimizeDeliveries"
        /\ lastCall'.given # <<>>
        /\ idleDrones(drones) # <<>>)
       => \E picks \in Picks :
              Let(applyOptimizationStrategy(World, lastCall'.given,
                      idleDrones(drones), lastCall'.named, clock, picks),
                  LAMBDA r : drones' = r.w.drones /\ orderObj' = r.w.obj)]_vars

\* The distance of order o from the depot is more than maxDistance.
BeyondMaxDistance(w, o, maxDistance) ==
    LET dx == w.obj[o].location.x - BaseX
        dy == w.obj[o].location.y - BaseY
    IN  dx * dx + dy * dy > maxDistance * maxDistance

\* C18: when POST /otimizar is given maxDistance, no order farther from the
\* depot (10,10) than maxDistance is assigned to any drone: it stays pending
\* as it was and no drone holds it, whatever room the drones have.
C18_MaxDistanceFilter ==
    (lastCall.op = "POST /otimizar") =>
        \A o \in Range(lastCall.given) :
            BeyondMaxDistance(lastCall.before, o, lastCall.maxDistance) =>
                /\ orderObj[o] = lastCall.before.obj[o]
                /\ orderObj[o].status = "pending"
                /\ \A d \in 1..Len(drones) :
                       o \notin Range(drones[d].assignedOrders)

\* C18 witness: a call with maxDistance 4 assigned an order within 4 km and
\* left one beyond 4 km pending, although an idle drone had room for it
\* before and after the call.
C18_Witness ==
    /\ lastCall.op = "POST /otimizar"
    /\ lastCall.maxDistance = 4
    /\ lastCall.assigned >= 1
    /\ \E o \in Range(lastCall.given) :
           /\ BeyondMaxDistance(lastCall.before, o, 4)
           /\ orderObj[o].status = "pending"
           /\ \E d \in 1..Len(drones) :
                  /\ drones[d].status = "idle"
                  /\ SumOver(drones[d].assignedOrders, LAMBDA a : orderObj[a].weight)
                         + orderObj[o].weight <= drones[d].capacity

\* C19: the status of a drone follows idle -> loading -> flying ->
\* delivering -> returning -> idle under every interleaving of its timers
\* with the actions of the user: it leaves idle only into loading, and from
\* returning or idle it does not become flying or delivering.
C19_StatusCycle ==
    [][\A d \in 1..Len(drones) :
           d <= Len(drones') =>
               /\ (drones[d].status = "idle" /\ drones'[d].status # "idle")
                      => drones'[d].status = "loading"
               /\ drones[d].status \in {"returning", "idle"}
                      => drones'[d].status \notin {"flying", "delivering"}]_vars

\* The requests of times that fall into the window of WindowMs ms ending at t.
InWindow(times, t) ==
    Cardinality({k \in 1..Len(times) : times[k] > t - WindowMs /\ times[k] <= t})

\* C20: the API admits at most MaxRequests requests of one client IP within
\* any window of WindowMs ms (100 a minute in the deployment); a request
\* beyond the limit is answered 429 and is not counted, and requests older
\* than the window no longer count.
C20_RateLimit ==
    \A c \in DOMAIN rlServed :
        \A t \in 0..MaxNow : InWindow(rlServed[c], t) <= MaxRequests

\* The same bound for an application that mounts the middleware, with what
\* the Map holds: only requests that were passed on, none out of the window
\* of the last request.
LimiterBound ==
    /\ \A c \in DOMAIN rlPassed :
           \A t \in 0..MaxNow : InWindow(rlPassed[c], t) <= MaxRequests
    /\ \A c \in DOMAIN rlRequests :
           /\ Len(rlRequests[c]) <= MaxRequests
           /\ \A k \in 1..Len(rlRequests[c]) :
                  \E j \in 1..Len(rlPassed[c]) : rlPassed[c][j] = rlRequests[c][k]

\* How often point q is a stop of path.
StopCount(path, q) == Cardinality({k \in 1..Len(path) : path[k] = q})

\* The path the running call of optimizeRouteWith2Opt was given.
TwoOptGiven == IF toCall = 2 THEN toFirst ELSE toInput

\* C21: 2-opt keeps the endpoints and the stops: for a path of length >= 4
\* the path returned is a permutation of the path given in which the first
\* and the last point (the two depot visits) are unchanged, so only indices
\* 1..len-2 are reversed; a path of length < 4 is returned unchanged; and
\* the array given is never written.
C21_TwoOptKeepsStops ==
    /\ [](toPc = "done" =>
              /\ Len(toResult) = Len(TwoOptGiven)
              /\ \A q \in RhombusPoints :
                     StopCount(toResult, q) = StopCount(TwoOptGiven, q)
              /\ Len(TwoOptGiven) >= 1 =>
                     /\ toResult[1] = TwoOptGiven[1]
                     /\ toResult[Len(toResult)] = TwoOptGiven[Len(TwoOptGiven)]
              /\ Len(TwoOptGiven) < 4 => toResult = TwoOptGiven)
    /\ [][toInput' = toInput]_vars

\* C21 witness: a call on a path of five points returned another order of
\* its interior stops.
C21_Witness ==
    /\ toPc = "done"
    /\ toCall = 1
    /\ Len(toInput) = 5
    /\ toResult # toInput
    /\ toResult[1] = toInput[1]
    /\ toResult[5] = toInput[5]

\* C22: 2-opt terminates on every finite path: the while loop runs another
\* pass only after a pass that strictly lowered bestDistance, and every call
\* returns.
C22_TwoOptTerminates ==
    /\ [][(toPc = "loop" /\ toPc' = "loop" /\ toImproved')
              => toBestDistance' < toBestDistance]_vars
    /\ (toPc = "call") ~> (toPc = "done")

\* C22 witness: a pass has lowered bestDistance and the loop is about to run
\* another pass.
C22_Witness ==
    /\ toPc = "loop"
    /\ toImproved
    /\ toRoute = toBestRoute
    /\ toBestDistance < calculateRouteDistance(TwoOptGiven)

\* What POST /pedidos/:id/deliver owes, for the request of the step.
DeliverContract ==
    LET id == lastCall'.given[1]
    IN  /\ lastCall'.success =>
               \E o \in Range(orders) :
                   orderObj[o].id = id /\ orderObj[o].status = "assigned"
        /\ ~lastCall'.success =>
               /\ orders' = orders
               /\ deliveredOrders' = deliveredOrders
               /\ lastCall'.status \in {400, 404}
               /\ (lastCall'.status = 404) <=>
                      (\A o \in Range(orders) : orderObj[o].id # id)
        /\ lastCall'.success =>
               /\ \A o \in Range(orders') : orderObj'[o].id # id
               /\ Cardinality({k \in 1..Len(deliveredOrders') :
                                  orderObj'[deliveredOrders'[k]].id = id}) = 1
               /\ \A k \in 1..Len(deliveredOrders') :
                      orderObj'[deliveredOrders'[k]].id = id
                          => orderObj'[deliveredOrders'[k]].status = "delivered"

\* C23: POST /api/v1/pedidos/:id/deliver succeeds only for an order whose
\* status is assigned; for an unknown id (404) or an order in another status
\* (400) orders and deliveredOrders are unchanged; on success the order of
\* that id is no longer in orders and is exactly once in deliveredOrders,
\* with status delivered.
C23_DeliverOnlyAssigned ==
    [][(lastCall'.op = "POST /deliver" /\ lastCall' # lastCall)
           => DeliverContract]_vars

\* No two orders of the store share an id.
UniqueOrderIds ==
    \A a, b \in Range(orders \o deliveredOrders) :
        orderObj[a].id = orderObj[b].id => a = b

\* The contract of deliver in the states where the ids are unique.
DeliverWithUniqueIds ==
    [][(lastCall'.op = "POST /deliver" /\ lastCall' # lastCall /\ UniqueOrderIds)
           => DeliverContract]_vars

\* No two drones of the store share an id.
UniqueDroneIds ==
    \A i, j \in 1..Len(drones) : drones[i].id = drones[j].id => i = j

\* C24: in the REST store no two orders of orders and deliveredOrders share
\* an id and no two drones share an id, after any sequence of create, batch
\* create, seed, reset, deliver and delete requests.
C24_UniqueIds ==
    UniqueOrderIds /\ UniqueDroneIds

\* The weights of the orders a drone holds, summed.
HeldWeight(d) ==
    SumOver(drones[d].assignedOrders, LAMBDA o : orderObj[o].weight)

\* C25: in every reachable state each drone's currentLoad equals the sum of
\* the weights of the orders in its assignedOrders and is never negative,
\* under every interleaving of assignment, the delivery timer callbacks,
\* removeOrder, stopAllOperations and reset, and after a commit by the
\* optimize request of the API.
C25_LoadBookkeeping ==
    \A d \in 1..Len(drones) :
        /\ drones[d].currentLoad = HeldWeight(d)
        /\ drones[d].currentLoad >= 0

\* How often the assignments of the last call list order id under drone id.
Listed(droneId, orderId) ==
    SumOver(lastCall.assignments, LAMBDA a :
        IF a.drone = droneId
        THEN Cardinality({k \in 1..Len(a.orders) : a.orders[k] = orderId})
        ELSE 0)

\* The last call ran greedyAssignment on the orders it sorted.
GreedyCall == lastCall.op \in {"priority_first", "balanced_optimization"}

\* C26: the assignments list returned by greedyAssignment contains each order
\* committed during the call exactly once, under the drone it was committed
\* to, and the number of listed order ids equals the assigned count; also
\* when a drone already held orders from an earlier call.
C26_AssignmentsComplete ==
    GreedyCall =>
        /\ \A k \in 1..Len(lastCall.log) :
               Listed(drones[lastCall.log[k].drone].id,
                      orderObj[lastCall.log[k].order].id) = 1
        /\ SumOver(lastCall.assignments, LAMBDA a : Len(a.orders))
               = lastCall.assigned

\* The same for the calls that found every drone empty.
AssignmentsCompleteOnEmptyDrones ==
    (GreedyCall /\ \A d \in 1..Len(lastCall.before.drones) :
                       lastCall.before.drones[d].assignedOrders = <<>>)
        => C26_AssignmentsComplete

(***************************************************************************)
(* SpecGroups: the grouping optimizer on fleets of imported configurations *)
(***************************************************************************)

\* The order forms of the group runs: two orders west of the base that fit
\* one drone together, by weight and by the tour from the base, and one east.
GroupOrderData ==
    {[location |-> Pt(7, 10), weight |-> 2, priority |-> "alta"],
     [location |-> Pt(6, 10), weight |-> 2, priority |-> "baixa"],
     [location |-> Pt(13, 10), weight |-> 3, priority |-> "media"]}

GroupsAddOrder == addOrder(GroupOrderData, MaxOrders)

\* droneConfig.position of the imported files: none (the base is taken), and
\* the position of a drone that was on its way when the file was exported.
ImportPositions == {basePosition, Pt(14, 10)}

\* DroneController.importConfiguration(config) for config.drones = configs:
\* the new fleet.  Every drone is a new Drone, idle, at droneConfig.position.
importConfiguration(configs) ==
    [i \in 1..Len(configs) |->
        [NewDrone(configs[i].id, configs[i].capacity, configs[i].range)
            EXCEPT !.position = configs[i].position,
                   !.deliveriesCount = configs[i].deliveriesCount,
                   !.totalDistance = configs[i].totalDistance]]

\* importSystemConfiguration() with a file that exportConfiguration wrote
\* for this fleet, the drones at the positions of ImportPositions.  The
\* orders are left as they are.
ImportConfiguration ==
    \E positions \in [1..Len(drones) -> ImportPositions] :
        /\ drones' = importConfiguration(
               [i \in 1..Len(drones) |->
                   [id |-> drones[i].id, capacity |-> drones[i].capacity,
                    range |-> drones[i].range, position |-> positions[i],
                    deliveriesCount |-> drones[i].deliveriesCount,
                    totalDistance |-> drones[i].totalDistance]])
        /\ lastCall' = NoCall
        /\ UNCHANGED <<clock, orderObj, orders, deliveredOrders, orderIdCounter,
                       timers, isSimulationRunning, simulationInterval>>
        /\ UNCHANGED <<ccVars, toVars, clVars, rtVars, rlVars, apiVars, simVars>>

GroupsNext ==
    \/ GroupsAddOrder
    \/ ImportConfiguration
    \/ AdvancedOptimization

SpecGroups == Init /\ [][GroupsNext]_vars

\* The groups the last call of the grouping optimizer formed.
GroupsOfCall ==
    LET w == lastCall.before
        ds == getAvailableDrones(w.drones)
    IN  createOptimalGroups(w, prioritizeOrders(w.obj, lastCall.given, clock), ds)

\* The orders the last call turned from pending to assigned.
NewlyAssigned ==
    {o \in Range(lastCall.given) :
        /\ lastCall.before.obj[o].status = "pending"
        /\ orderObj[o].status = "assigned"}

\* C27: in assignGroupsToDrones, for each group either every order of the
\* group becomes assigned or none does, and the assignedOrders reported is
\* the number of orders whose status changed from pending to assigned in
\* the call.
C27_GroupAllOrNothing ==
    lastCall.op = "performAdvancedOptimization" =>
        /\ \A g \in 1..Len(GroupsOfCall) :
               \/ Range(GroupsOfCall[g]) \subseteq NewlyAssigned
               \/ Range(GroupsOfCall[g]) \cap NewlyAssigned = {}
        /\ lastCall.assigned = Cardinality(NewlyAssigned)

\* The same for the calls that found every drone at the base.
GroupAllOrNothingAtBase ==
    (\A d \in 1..Len(lastCall.before.drones) :
        lastCall.before.drones[d].position = basePosition)
        => C27_GroupAllOrNothing

\* C28: in the REST store every order held in a drone's assignedOrders has
\* status assigned and assignedDrone equal to the drone's id, and no
\* delivered order is among them, so that none counts toward the load the
\* next optimize computes from drone.assignedOrders.
C28_HeldOrdersAssigned ==
    \A d \in 1..Len(drones) :
        \A o \in Range(drones[d].assignedOrders) :
            /\ orderObj[o].status = "assigned"
            /\ orderObj[o].assignedDrone = drones[d].id
            /\ o \notin Range(deliveredOrders)

(***************************************************************************)
(* SpecStrategies: the strategies called on the whole lists                *)
(***************************************************************************)

\* The centroids Math.random() can draw on the whole lists.
WholePicks == [1..Len(drones) -> 1..Len(orders)]

\* OptimizationAlgorithm.applyOptimizationStrategy(orders, drones, strategy)
\* called with the list of the orders and the list of the drones as they
\* are: the strategies do their own filtering.
StrategyOnLists(strategy, picks) ==
    /\ orders # <<>>
    /\ EngineCall(strategy,
           applyOptimizationStrategy(World, orders, [i \in 1..Len(drones) |-> i],
                                     strategy, clock, picks),
           orders)

ListsPriorityFirst == StrategyOnLists("priority_first", NoPicks)

ListsCapacityOptimization == StrategyOnLists("capacity_optimization", NoPicks)

ListsBalancedOptimization == StrategyOnLists("balanced_optimization", NoPicks)

ListsDistanceOptimization ==
    \E picks \in WholePicks : StrategyOnLists("distance_optimization", picks)

StrategiesNext ==
    \/ EngineAddOrder
    \/ StartSimulation
    \/ ListsPriorityFirst
    \/ ListsCapacityOptimization
    \/ ListsBalancedOptimization
    \/ ListsDistanceOptimization

SpecStrategies == Init /\ [][StrategiesNext]_vars

\* The last call committed order o to drone d.
Committed(d, o) ==
    Holds(drones, d, o) > Holds(lastCall.before.drones, d, o)

\* Every commit of the last call took a pending order and an idle drone.
OnlyPendingToIdle ==
    \A d \in 1..Len(drones) : \A o \in 1..Len(orderObj) :
        Committed(d, o) =>
            /\ lastCall.before.obj[o].status = "pending"
            /\ lastCall.before.drones[d].status = "idle"

\* C29: every strategy commits only orders whose status is pending and only
\* to drones whose status is idle: distance_optimization, like greedy
\* matching and capacity_optimization, assigns no order that is already
\* assigned or delivered and assigns to no drone that is loading, flying,
\* delivering or returning.
C29_OnlyPendingToIdle ==
    lastCall.op \in Strategies => OnlyPendingToIdle

\* The strategies that filter: greedy matching and capacity_optimization.
FilteringStrategiesPendingToIdle ==
    lastCall.op \in Strategies \ {"distance_optimization"} => OnlyPendingToIdle

\* A call of a filtering strategy on lists that held an assigned order and a
\* loading drone has committed an order.
FilteringStrategyCommitted ==
    /\ lastCall.op \in Strategies \ {"distance_optimization"}
    /\ \E o \in Range(lastCall.given) : lastCall.before.obj[o].status = "assigned"
    /\ \E d \in 1..Len(drones) : lastCall.before.drones[d].status = "loading"
    /\ \E d \in 1..Len(drones) : \E o \in 1..Len(orderObj) : Committed(d, o)

(***************************************************************************)
(* SpecSim: one drone, the user, and a run that is left to its timers      *)
(***************************************************************************)

\* startSimulation() returns true, and from here on the user does nothing:
\* simStart keeps the orders that are assigned at this moment.
QuietStart ==
    /\ startSimulation
    /\ isSimulationRunning'
    /\ simStart' = [quiet |-> TRUE,
                    assigned |-> Filter(orders,
                        LAMBDA o : orderObj'[o].status = "assigned")]

\* The user acts while no run has been left to its timers.
SimAddOrder == ~simStart.quiet /\ TripsAddOrder
SimRemoveOrder == ~simStart.quiet /\ RemoveOrder
SimOptimizeDeliveries == ~simStart.quiet /\ OptimizeDeliveries
SimStartSimulation == ~simStart.quiet /\ StartSimulation
SimQuietStart == ~simStart.quiet /\ QuietStart
SimStopSimulation == ~simStart.quiet /\ StopSimulation
SimStopAllOperations == ~simStart.quiet /\ StopAllOperations
SimResetSystem == ~simStart.quiet /\ ResetSystem

\* The callbacks of setTimeout and of the interval of moveToPoint.
SimTimers ==
    \/ FireLoad
    \/ FireMove
    \/ FireFly
    \/ FireStep
    \/ FireIdle
    \/ FireStop

SimNext ==
    \/ SimAddOrder
    \/ SimRemoveOrder
    \/ SimOptimizeDeliveries
    \/ SimStartSimulation
    \/ SimQuietStart
    \/ SimStopSimulation
    \/ SimStopAllOperations
    \/ SimResetSystem
    \/ SimTimers
    \/ UpdateSimulationProgress

SpecSim == TripsInit /\ [][SimNext]_vars

\* Every pending timer fires, and the 1000 ms interval of startSimulation
\* keeps firing while it is set.
SpecSimFair ==
    SpecSim /\ WF_vars(SimTimers) /\ WF_vars(UpdateSimulationProgress)

\* Every order that was assigned at the start is delivered.
StartedOrdersDelivered ==
    \A o \in Range(simStart.assigned) : orderObj[o].status = "delivered"

\* Every drone is idle at the base, empty and charged.
DronesHome ==
    \A d \in 1..Len(drones) :
        /\ drones[d].status = "idle"
        /\ drones[d].position = basePosition
        /\ drones[d].assignedOrders = <<>>
        /\ drones[d].currentLoad = 0
        /\ drones[d].battery = BatteryFull

\* The simulation has stopped and its interval is cleared.
SimulationStopped == ~isSimulationRunning /\ ~simulationInterval

\* C30: once startSimulation has returned true and no user action
\* intervenes, under fair firing of the timers every order that was assigned
\* at the start is eventually delivered, every drone eventually is idle at
\* the base with no orders, load 0 and battery 100, and isSimulationRunning
\* eventually is false with the interval cleared.
C30_SimulationCompletes ==
    /\ simStart.quiet ~> StartedOrdersDelivered
    /\ simStart.quiet ~> DronesHome
    /\ simStart.quiet ~> SimulationStopped

\* The drones and the simulation come to rest in every case.
SimulationComesToRest ==
    /\ simStart.quiet ~> DronesHome
    /\ simStart.quiet ~> SimulationStopped

====
